---- MODULE Spec2Model ----
(***************************************************************************)
(* Portfolio backend: project CRUD with Cloudinary media life cycle         *)
(* (backend/controllers/projectController.js), the project router and the   *)
(* server's cloudinary endpoints (backend/routes/projectRoutes.js) and the   *)
(* user controller (login).                                                 *)
(*                                                                          *)
(* One action per HTTP request; an action runs the whole middleware chain   *)
(* and the handler.  `last` records the request that was just served: what  *)
(* the handler received, the record before and after, the response, and the *)
(* ordered list of storage and media-store calls the request made.          *)
(***************************************************************************)
EXTENDS Integers, Sequences, FiniteSets, TLC

VARIABLES db, nextId, issued, deleted, last, fields, session, upload, server,
          race, flow, direct, routed, thr, deb, dash, prov

vars == <<db, nextId, issued, deleted, last, fields, session, upload, server,
          race, flow, direct, routed, thr, deb, dash, prov>>

\* the project API's state; the browser session, the upload middleware, the
\* server's database connection, the raced handlers and the admin client's
\* parts have their own
api == <<db, nextId, issued, deleted, last>>
notApi == <<fields, session, upload, server, race, flow, direct, routed, thr,
            deb, dash, prov>>
notFields == <<session, upload, server, race, flow, direct, routed, thr, deb,
               dash, prov>>
notSession == <<api, fields, upload, server, race, flow, direct, routed, thr,
                deb, dash, prov>>
notUpload == <<api, fields, session, server, race, flow, direct, routed, thr,
               deb, dash, prov>>
notServer == <<api, fields, session, upload, race, flow, direct, routed, thr,
               deb, dash, prov>>
notRace == <<issued, deleted, last, fields, session, upload, server, flow,
             direct, routed, thr, deb, dash, prov>>
notFlow == <<api, fields, session, upload, server, race, direct, routed, thr,
             deb, dash, prov>>
notDirect == <<api, fields, session, upload, server, race, flow, routed, thr,
               deb, dash, prov>>
notRouted == <<api, fields, session, upload, server, race, flow, direct, thr,
               deb, dash, prov>>
notThr == <<api, fields, session, upload, server, race, flow, direct, routed,
            deb, dash, prov>>
notDeb == <<api, fields, session, upload, server, race, flow, direct, routed,
            thr, dash, prov>>
notDash == <<api, fields, session, upload, server, race, flow, direct, routed,
             thr, deb, prov>>
notProv == <<api, fields, session, upload, server, race, flow, direct, routed,
             thr, deb, dash>>

----------------------------------------------------------------------------
(* Bounds and value universes *)

\* number of distinct media-store public ids a request may name
NumPids == 2

PidName == <<"p1", "p2", "p3", "p4">>
Pids == {PidName[i] : i \in 1..NumPids}
Urls == {"u1"}

\* a JavaScript `undefined` (a key that is absent from req.body)
UNDEF == "<undefined>"

\* ids the storage can assign to a new record
AssignableIds == {1}
\* a well-formed id no record ever has
StrangerId == 9
\* an id that is not a well-formed ObjectId
MalformedId == 0
RequestIds == AssignableIds \cup {StrangerId, MalformedId}

Tokens == {"none", "invalid", "expired", "valid"}

Kinds == {"video", "thumbnail"}

\* JavaScript truthiness of a string-or-undefined value
Truthy(x) == x # UNDEF /\ x # ""

----------------------------------------------------------------------------
(* Storage: the Project collection *)

NullProject ==
    [_id |-> 0, title |-> "", description |-> "",
     cloudinaryVideoUrl |-> "", cloudinaryVideoPublicId |-> "",
     cloudinaryThumbnailUrl |-> "", cloudinaryThumbnailPublicId |-> "",
     features |-> <<>>, tools |-> <<>>]

\* the value of req.body.features / req.body.tools: absent, a string or an
\* array of strings
Absent == [t |-> "undefined", s |-> "", a |-> <<>>]
Str(s) == [t |-> "string", s |-> s, a |-> <<>>]
Arr(a) == [t |-> "array", s |-> "", a |-> a]

\* a req.body without keys. featuresIndexed and toolsIndexed are the keys
\* features[i] and tools[i] as <<i, value>>, in the order Object.keys gives
NoBody ==
    [title |-> UNDEF, description |-> UNDEF,
     cloudinaryVideoUrl |-> UNDEF, cloudinaryVideoPublicId |-> UNDEF,
     cloudinaryThumbnailUrl |-> UNDEF, cloudinaryThumbnailPublicId |-> UNDEF,
     removeVideo |-> UNDEF, removeThumbnail |-> UNDEF,
     features |-> Absent, tools |-> Absent,
     featuresIndexed |-> <<>>, toolsIndexed |-> <<>>]

\* mongoose.Types.ObjectId.isValid(id)
isValid(id) == id # MalformedId

\* Project.findById(id): the record or null
findById(d, id) == IF id \in DOMAIN d THEN d[id] ELSE NullProject

Stored(x) == IF x = UNDEF THEN "" ELSE x

\* schema validation of a new document: title and description are required
\* (the set of fields with a validation error)
validateNew(body) ==
    {f \in {"title", "description"} : ~Truthy(body[f])}

\* update validators (runValidators: true) run on the flow being set
validateUpdate(body) ==
    {f \in {"title", "description"} : body[f] = ""}

\* the schema's cast of a body value to a list of strings (default [])
listOf(v) ==
    IF v.t = "array" THEN v.a
    ELSE IF v.t = "string" THEN <<v.s>>
    ELSE <<>>

\* new Project(body) keeping the tools but not the features
newProject_noFeatures(id, body) ==
    [_id |-> id,
     title |-> Stored(body.title),
     description |-> Stored(body.description),
     cloudinaryVideoUrl |-> Stored(body.cloudinaryVideoUrl),
     cloudinaryVideoPublicId |-> Stored(body.cloudinaryVideoPublicId),
     cloudinaryThumbnailUrl |-> Stored(body.cloudinaryThumbnailUrl),
     cloudinaryThumbnailPublicId |-> Stored(body.cloudinaryThumbnailPublicId),
     features |-> <<>>,
     tools |-> listOf(body.tools)]

\* new Project(body): the document built from the body's schema fields
newProject(id, body) ==
    [_id |-> id,
     title |-> Stored(body.title),
     description |-> Stored(body.description),
     cloudinaryVideoUrl |-> Stored(body.cloudinaryVideoUrl),
     cloudinaryVideoPublicId |-> Stored(body.cloudinaryVideoPublicId),
     cloudinaryThumbnailUrl |-> Stored(body.cloudinaryThumbnailUrl),
     cloudinaryThumbnailPublicId |-> Stored(body.cloudinaryThumbnailPublicId),
     features |-> listOf(body.features),
     tools |-> listOf(body.tools)]

Merge(old, new) == IF new = UNDEF THEN old ELSE new

\* the $set of findByIdAndUpdate(id, body): keys present in the body replace
\* the stored values, keys absent from it are left alone
mergeBody(rec, body) ==
    [_id |-> rec._id,
     title |-> Merge(rec.title, body.title),
     description |-> Merge(rec.description, body.description),
     cloudinaryVideoUrl |-> Merge(rec.cloudinaryVideoUrl, body.cloudinaryVideoUrl),
     cloudinaryVideoPublicId |->
         Merge(rec.cloudinaryVideoPublicId, body.cloudinaryVideoPublicId),
     cloudinaryThumbnailUrl |->
         Merge(rec.cloudinaryThumbnailUrl, body.cloudinaryThumbnailUrl),
     cloudinaryThumbnailPublicId |->
         Merge(rec.cloudinaryThumbnailPublicId, body.cloudinaryThumbnailPublicId),
     features |-> IF body.features.t = "undefined" THEN rec.features
                  ELSE listOf(body.features),
     tools |-> IF body.tools.t = "undefined" THEN rec.tools
               ELSE listOf(body.tools)]

----------------------------------------------------------------------------
(* Calls a request makes, in order *)

Call(e, kind, pid, ok) == [e |-> e, kind |-> kind, pid |-> pid, ok |-> ok]

DbRead == Call("dbRead", "", "", TRUE)
DbWrite == Call("dbWrite", "", "", TRUE)
DbRemove == Call("dbRemove", "", "", TRUE)

\* deleteVideoFromCloudinary / deleteImageFromCloudinary: one destroy call
\* to the media store; it throws when the store fails
mediaDelete(kind, pid, fails) == Call("mediaDelete", kind, pid, ~fails)

\* uploadVideoToCloudinary / uploadImageToCloudinary on the server side:
\* up is "fail" when the store throws, else the public id the store assigned
mediaUpload(kind, up) ==
    Call("mediaUpload", kind, IF up = "fail" THEN "" ELSE up, up # "fail")

UploadUrl == "u1"

----------------------------------------------------------------------------
(* updateProject: the media blocks *)

MediaResult(url, pid, calls, abort) ==
    [url |-> url, pid |-> pid, calls |-> calls, abort |-> abort]

\* mediaBlock without the comparison of the old and the new public id
mediaBlock_deleteAlways(kind, oldPid, url, pid, remove, hasFile, delFails, up) ==
    IF Truthy(url) /\ Truthy(pid)
    THEN MediaResult(url, pid,
            IF Truthy(oldPid)
            THEN <<mediaDelete(kind, oldPid, delFails)>> ELSE <<>>,
            FALSE)
    ELSE IF remove = "true" \/ url = ""
    THEN IF Truthy(oldPid)
         THEN MediaResult("", "", <<mediaDelete(kind, oldPid, delFails)>>, FALSE)
         ELSE MediaResult(url, pid, <<>>, FALSE)
    ELSE IF hasFile
    THEN LET dels == IF Truthy(oldPid)
                     THEN <<mediaDelete(kind, oldPid, delFails)>> ELSE <<>>
         IN  IF up = "fail"
             THEN MediaResult(url, pid, dels \o <<mediaUpload(kind, up)>>, TRUE)
             ELSE MediaResult(UploadUrl, up, dels \o <<mediaUpload(kind, up)>>, FALSE)
    ELSE MediaResult(url, pid, <<>>, FALSE)

\* One media kind of updateProject.  oldPid is the stored public id of the
\* existing record; url, pid, remove are req.body's URL, public id and
\* removal flag of the kind; hasFile says req.files carries a file of the
\* kind.  The result is the kind's URL and public id in req.body afterwards,
\* the media-store calls made, and whether the handler returned 500.
mediaBlock(kind, oldPid, url, pid, remove, hasFile, delFails, up) ==
    IF Truthy(url) /\ Truthy(pid)
    THEN MediaResult(url, pid,
            IF Truthy(oldPid) /\ oldPid # pid
            THEN <<mediaDelete(kind, oldPid, delFails)>> ELSE <<>>,
            FALSE)
    ELSE IF remove = "true" \/ url = ""
    THEN IF Truthy(oldPid)
         THEN MediaResult("", "", <<mediaDelete(kind, oldPid, delFails)>>, FALSE)
         ELSE MediaResult(url, pid, <<>>, FALSE)
    ELSE IF hasFile
    THEN LET dels == IF Truthy(oldPid)
                     THEN <<mediaDelete(kind, oldPid, delFails)>> ELSE <<>>
         IN  IF up = "fail"
             THEN MediaResult(url, pid, dels \o <<mediaUpload(kind, up)>>, TRUE)
             ELSE MediaResult(UploadUrl, up, dels \o <<mediaUpload(kind, up)>>, FALSE)
    ELSE MediaResult(url, pid, <<>>, FALSE)

handleVideo(existing, body, files, env) ==
    LET r == mediaBlock("video", existing.cloudinaryVideoPublicId,
                        body.cloudinaryVideoUrl, body.cloudinaryVideoPublicId,
                        body.removeVideo, files.video,
                        "video" \in env.delFails, env.upVideo)
    IN  [body |-> [body EXCEPT !.cloudinaryVideoUrl = r.url,
                               !.cloudinaryVideoPublicId = r.pid],
         calls |-> r.calls, abort |-> r.abort]

handleThumbnail(existing, body, files, env) ==
    LET r == mediaBlock("thumbnail", existing.cloudinaryThumbnailPublicId,
                        body.cloudinaryThumbnailUrl, body.cloudinaryThumbnailPublicId,
                        body.removeThumbnail, files.thumbnail,
                        "thumbnail" \in env.delFails, env.upThumbnail)
    IN  [body |-> [body EXCEPT !.cloudinaryThumbnailUrl = r.url,
                               !.cloudinaryThumbnailPublicId = r.pid],
         calls |-> r.calls, abort |-> r.abort]

----------------------------------------------------------------------------
(* Normalisation of features and tools in addProject and updateProject *)

JsonList == "[\"a\",\"b\"]"

\* JSON.parse on the strings of the model: the list, or a SyntaxError
JSONparse(s) ==
    IF s = JsonList THEN [ok |-> TRUE, a |-> <<"a", "b">>]
    ELSE [ok |-> FALSE, a |-> <<>>]

\* a truthy string value is parsed as JSON, or wrapped when that throws
parseList(v) ==
    IF v.t = "string" /\ v.s # ""
    THEN IF JSONparse(v.s).ok THEN Arr(JSONparse(v.s).a) ELSE Arr(<<v.s>>)
    ELSE v

Max(S) == CHOOSE m \in S : \A x \in S : x <= m

\* const features = []; features[index] = req.body[key] for every key: a
\* sparse array (the indices assigned, the value at each, the length)
sparseArray(keys) ==
    LET has == {keys[k][1] : k \in DOMAIN keys}
        lastKey(i) == Max({k \in DOMAIN keys : keys[k][1] = i})
    IN  [has |-> has,
         at |-> [i \in has |-> keys[lastKey(i)][2]],
         length |-> IF has = {} THEN 0 ELSE Max(has) + 1]

\* Array.prototype.filter(Boolean) from index i on: holes are skipped and
\* falsy values dropped
RECURSIVE filterFrom(_, _)
filterFrom(arr, i) ==
    IF i >= arr.length THEN <<>>
    ELSE (IF i \in arr.has /\ Truthy(arr.at[i]) THEN <<arr.at[i]>> ELSE <<>>)
         \o filterFrom(arr, i + 1)

\* reconstructIndexed appending in arrival order
reconstructIndexed_arrival(plain, keys) ==
    IF Len(keys) > 0
    THEN Arr(SelectSeq([k \in DOMAIN keys |-> keys[k][2]], Truthy))
    ELSE plain

\* if (features.length > 0) req.body.features = features.filter(Boolean)
reconstructIndexed(plain, keys) ==
    IF sparseArray(keys).length > 0
    THEN Arr(filterFrom(sparseArray(keys), 0))
    ELSE plain

\* the body after the string parse and the indexed-key reconstruction; the
\* indexed keys are deleted from it
normalizeBody(body) ==
    [body EXCEPT
       !.features = reconstructIndexed(parseList(body.features),
                                       body.featuresIndexed),
       !.tools = reconstructIndexed(parseList(body.tools), body.toolsIndexed),
       !.featuresIndexed = <<>>,
       !.toolsIndexed = <<>>]

----------------------------------------------------------------------------
(* The handlers of projectController.js, as functions of the storage, the   *)
(* request and the outcome of the external calls.                           *)

Result(status, message, d, trace, project) ==
    [status |-> status, message |-> message, db |-> d, trace |-> trace,
     project |-> project, errors |-> <<>>, saved |-> NoBody]

\* the ValidationError mongoose throws for a set of failing flow
ValidationError(paths) ==
    [name |-> "ValidationError", errors |-> [f \in paths |-> "required"]]

\* extractValidationErrors without the mapping (always null)
extractValidationErrors_null(error) ==
    [null |-> TRUE, errors |-> <<>>]

\* extractValidationErrors: the field -> message mapping of a
\* ValidationError, null for any other error
extractValidationErrors(error) ==
    IF error.name = "ValidationError"
    THEN [null |-> FALSE,
          errors |-> [key \in DOMAIN error.errors |-> error.errors[key]]]
    ELSE [null |-> TRUE, errors |-> <<>>]

\* the catch block of addProject and updateProject
catchError(error, what, d, trace) ==
    LET validationErrors == extractValidationErrors(error)
    IN  IF ~validationErrors.null
        THEN [Result(400, "Validation error", d, trace, NullProject)
                EXCEPT !.errors = validationErrors.errors]
        ELSE Result(500, what, d, trace, NullProject)

getProjects(d) ==
    Result(200, "", d, <<DbRead>>, NullProject)

\* getProject looking the record up before it checks the id
getProject_lookupFirst(d, id) ==
    LET project == findById(d, id)
    IN  IF ~isValid(id)
        THEN Result(400, "Invalid project ID format", d, <<DbRead>>, NullProject)
        ELSE IF project = NullProject
        THEN Result(404, "Project not found", d, <<DbRead>>, NullProject)
        ELSE Result(200, "", d, <<DbRead>>, project)

getProject(d, id) ==
    IF ~isValid(id)
    THEN Result(400, "Invalid project ID format", d, <<>>, NullProject)
    ELSE LET project == findById(d, id)
         IN  IF project = NullProject
             THEN Result(404, "Project not found", d, <<DbRead>>, NullProject)
             ELSE Result(200, "", d, <<DbRead>>, project)

\* the upload blocks of addProject's multipart path
addUpload(kind, hasFile, url, pid, up) ==
    IF hasFile
    THEN IF up = "fail"
         THEN MediaResult(url, pid, <<mediaUpload(kind, up)>>, TRUE)
         ELSE MediaResult(UploadUrl, up, <<mediaUpload(kind, up)>>, FALSE)
    ELSE MediaResult(url, pid, <<>>, FALSE)

\* new Project(req.body) followed by project.save()
saveProject(d, id, body, calls) ==
    IF validateNew(body) # {}
    THEN catchError(ValidationError(validateNew(body)), "Error adding project",
                    d, calls)
    ELSE [Result(201, "Project added successfully",
                 (id :> newProject(id, body)) @@ d,
                 calls \o <<DbWrite>>, newProject(id, body))
            EXCEPT !.saved = body]

addProject(d, id, ct, req, files, env) ==
    LET body == normalizeBody(req) IN
    IF ct = "application/json"
    THEN saveProject(d, id, body, <<>>)
    ELSE LET v == addUpload("video", files.video, body.cloudinaryVideoUrl,
                            body.cloudinaryVideoPublicId, env.upVideo)
             b1 == [body EXCEPT !.cloudinaryVideoUrl = v.url,
                                !.cloudinaryVideoPublicId = v.pid]
             t == addUpload("thumbnail", files.thumbnail, b1.cloudinaryThumbnailUrl,
                            b1.cloudinaryThumbnailPublicId, env.upThumbnail)
             b2 == [b1 EXCEPT !.cloudinaryThumbnailUrl = t.url,
                              !.cloudinaryThumbnailPublicId = t.pid]
         IN  IF v.abort
             THEN Result(500, "Error uploading video to Cloudinary", d, v.calls,
                         NullProject)
             ELSE IF t.abort
             THEN Result(500, "Error uploading thumbnail to Cloudinary", d,
                         v.calls \o t.calls, NullProject)
             ELSE saveProject(d, id, b2, v.calls \o t.calls)

updateProject(d, id, req, files, env) ==
    IF ~isValid(id)
    THEN Result(400, "Invalid project ID format", d, <<>>, NullProject)
    ELSE LET existingProject == findById(d, id)
         IN
         IF existingProject = NullProject
         THEN Result(404, "Project not found", d, <<DbRead>>, NullProject)
         ELSE
         LET body == normalizeBody(req)
             v == handleVideo(existingProject, body, files, env)
             t == handleThumbnail(existingProject, v.body, files, env)
             updatedProject == mergeBody(existingProject, t.body)
         IN  IF v.abort
             THEN Result(500, "Error uploading video to Cloudinary", d,
                         <<DbRead>> \o v.calls, NullProject)
             ELSE IF t.abort
             THEN Result(500, "Error uploading thumbnail to Cloudinary", d,
                         <<DbRead>> \o v.calls \o t.calls, NullProject)
             ELSE IF validateUpdate(t.body) # {}
             THEN catchError(ValidationError(validateUpdate(t.body)),
                             "Error updating project", d,
                             <<DbRead>> \o v.calls \o t.calls)
             ELSE [Result(200, "Project updated successfully",
                          [d EXCEPT ![id] = updatedProject],
                          <<DbRead>> \o v.calls \o t.calls \o <<DbWrite>>,
                          updatedProject)
                     EXCEPT !.saved = t.body]

Without(d, id) == [i \in (DOMAIN d) \ {id} |-> d[i]]

\* deleteProject removing the record before the media
deleteProject_recordFirst(d, id, env) ==
    IF ~isValid(id)
    THEN Result(400, "Invalid project ID format", d, <<>>, NullProject)
    ELSE LET project == findById(d, id)
             vPid == project.cloudinaryVideoPublicId
             tPid == project.cloudinaryThumbnailPublicId
             vCalls == IF Truthy(vPid)
                       THEN <<mediaDelete("video", vPid, "video" \in env.delFails)>>
                       ELSE <<>>
             tCalls == IF Truthy(tPid)
                       THEN <<mediaDelete("thumbnail", tPid,
                                          "thumbnail" \in env.delFails)>>
                       ELSE <<>>
         IN
         IF project = NullProject
         THEN Result(404, "Project not found", d, <<DbRead>>, NullProject)
         ELSE IF Truthy(vPid) /\ "video" \in env.delFails
         THEN Result(500, "Error deleting project", Without(d, id),
                     <<DbRead, DbRemove>> \o vCalls, NullProject)
         ELSE IF Truthy(tPid) /\ "thumbnail" \in env.delFails
         THEN Result(500, "Error deleting project", Without(d, id),
                     <<DbRead, DbRemove>> \o vCalls \o tCalls, NullProject)
         ELSE Result(200, "Project deleted successfully", Without(d, id),
                     <<DbRead, DbRemove>> \o vCalls \o tCalls, project)

deleteProject(d, id, env) ==
    IF ~isValid(id)
    THEN Result(400, "Invalid project ID format", d, <<>>, NullProject)
    ELSE LET project == findById(d, id)
             vPid == project.cloudinaryVideoPublicId
             tPid == project.cloudinaryThumbnailPublicId
             vCalls == IF Truthy(vPid)
                       THEN <<mediaDelete("video", vPid, "video" \in env.delFails)>>
                       ELSE <<>>
             tCalls == IF Truthy(tPid)
                       THEN <<mediaDelete("thumbnail", tPid,
                                          "thumbnail" \in env.delFails)>>
                       ELSE <<>>
         IN
         IF project = NullProject
         THEN Result(404, "Project not found", d, <<DbRead>>, NullProject)
         ELSE IF Truthy(vPid) /\ "video" \in env.delFails
         THEN Result(500, "Error deleting project", d, <<DbRead>> \o vCalls,
                     NullProject)
         ELSE IF Truthy(tPid) /\ "thumbnail" \in env.delFails
         THEN Result(500, "Error deleting project", d,
                     <<DbRead>> \o vCalls \o tCalls, NullProject)
         ELSE Result(200, "Project deleted successfully", Without(d, id),
                     <<DbRead>> \o vCalls \o tCalls \o <<DbRemove>>, project)

----------------------------------------------------------------------------
(* userController: loginUser *)

\* the User collection: username -> password
Users == [u \in {"admin"} |-> "secret"]

\* isProduction of loginUser
isProduction(nodeEnv, secure, xfp) ==
    nodeEnv = "production" \/ secure \/ xfp = "https"

NoCookie == [set |-> FALSE, name |-> "", httpOnly |-> FALSE, secure |-> FALSE,
             sameSite |-> "", path |-> ""]

tokenCookie(prod) ==
    [set |-> TRUE, name |-> "token", httpOnly |-> TRUE, secure |-> prod,
     sameSite |-> IF prod THEN "None" ELSE "Lax", path |-> "/"]

LoginResult(status, message, cookie, user) ==
    [status |-> status, message |-> message, cookie |-> cookie, user |-> user]

\* loginUser setting the cookie before it compares the password
loginUser_cookieFirst(username, password, conn, throws) ==
    IF throws = "findOne"
    THEN LoginResult(500, "Server error", NoCookie, "")
    ELSE IF username \notin DOMAIN Users
    THEN LoginResult(404, "User not found", NoCookie, "")
    ELSE IF throws = "sign"
    THEN LoginResult(500, "Server error", NoCookie, "")
    ELSE IF Users[username] # password
    THEN LoginResult(401, "Invalid credentials",
                     tokenCookie(isProduction(conn.nodeEnv, conn.secure, conn.xfp)),
                     "")
    ELSE LoginResult(200, "Login successful",
                     tokenCookie(isProduction(conn.nodeEnv, conn.secure, conn.xfp)),
                     username)

\* throws names the call that throws in this request: "findOne"
\* (User.findOne), "sign" (jwt.sign) or "none"
loginUser(username, password, conn, throws) ==
    IF throws = "findOne"
    THEN LoginResult(500, "Server error", NoCookie, "")
    ELSE IF username \notin DOMAIN Users
    THEN LoginResult(404, "User not found", NoCookie, "")
    ELSE IF Users[username] # password
    THEN LoginResult(401, "Invalid credentials", NoCookie, "")
    ELSE IF throws = "sign"
    THEN LoginResult(500, "Server error", NoCookie, "")
    ELSE LoginResult(200, "Login successful",
                     tokenCookie(isProduction(conn.nodeEnv, conn.secure, conn.xfp)),
                     username)

----------------------------------------------------------------------------
(* server: POST /api/cloudinary-signature *)

\* String.prototype.trim on the folder values of the model
trim(s) == IF s = " " THEN "" ELSE IF s = " f " THEN "f" ELSE s

Timestamp == 1700000000

NoSignature == [signed |-> <<>>, folder |-> "", resource_type |-> "",
                timestamp |-> 0, cloud_name |-> "", api_key |-> ""]

\* the handler signing resource_type along with the folder and timestamp
cloudinarySignature_signsKind(folder, resource_type, credentials) ==
    IF ~credentials
    THEN [status |-> 500, sig |-> NoSignature]
    ELSE LET withFolder == Truthy(folder) /\ trim(folder) # ""
             params == (IF withFolder THEN <<<<"folder", trim(folder)>>>> ELSE <<>>)
                       \o <<<<"resource_type", IF Truthy(resource_type)
                                               THEN resource_type ELSE "auto">>>>
                       \o <<<<"timestamp", Timestamp>>>>
         IN  [status |-> 200,
              sig |-> [signed |-> params,
                       folder |-> IF withFolder THEN trim(folder) ELSE "",
                       resource_type |-> IF Truthy(resource_type)
                                         THEN resource_type ELSE "auto",
                       timestamp |-> Timestamp,
                       cloud_name |-> "cloud",
                       api_key |-> "key"]]

\* the handler: the parameters it signs and the response it sends.  The
\* signature is represented by the list of name/value pairs signed.
cloudinarySignature(folder, resource_type, credentials) ==
    IF ~credentials
    THEN [status |-> 500, sig |-> NoSignature]
    ELSE LET withFolder == Truthy(folder) /\ trim(folder) # ""
             params == (IF withFolder THEN <<<<"folder", trim(folder)>>>> ELSE <<>>)
                       \o <<<<"timestamp", Timestamp>>>>
         IN  [status |-> 200,
              sig |-> [signed |-> params,
                       folder |-> IF withFolder THEN trim(folder) ELSE "",
                       resource_type |-> IF Truthy(resource_type)
                                         THEN resource_type ELSE "auto",
                       timestamp |-> Timestamp,
                       cloud_name |-> "cloud",
                       api_key |-> "key"]]

----------------------------------------------------------------------------
(* Routing: the middleware in front of each handler *)

\* protect (authMiddleware): only a verified session token passes
protect(token) == token = "valid"

\* the router with the delete route left unprotected
routeChain_openDelete(route) ==
    CASE route = "getProjects" -> <<>>
      [] route = "getProject" -> <<>>
      [] route = "addProject" -> <<"protect", "optionalUpload">>
      [] route = "updateProject" -> <<"protect", "optionalUpload">>
      [] route = "deleteProject" -> <<>>
      [] route = "cloudinarySignature" -> <<"express.json">>
      [] route = "loginUser" -> <<>>

\* the middleware chain of each route of the project router and of the
\* server's own endpoints
routeChain(route) ==
    CASE route = "getProjects" -> <<>>
      [] route = "getProject" -> <<>>
      [] route = "addProject" -> <<"protect", "optionalUpload">>
      [] route = "updateProject" -> <<"protect", "optionalUpload">>
      [] route = "deleteProject" -> <<"protect">>
      [] route = "cloudinarySignature" -> <<"express.json">>
      [] route = "loginUser" -> <<>>

InChain(mw, route) == \E i \in 1..Len(routeChain(route)) : routeChain(route)[i] = mw

\* does the request reach the handler of the route
admitted(route, token) == InChain("protect", route) => protect(token)

NoFiles == [video |-> FALSE, thumbnail |-> FALSE]

\* optionalUpload: multer is skipped for JSON requests, so req.files is unset
optionalUpload(ct, files) == IF ct = "application/json" THEN NoFiles ELSE files

----------------------------------------------------------------------------
(* Requests *)

ContentTypes == {"application/json", "multipart/form-data"}

MediaUrlValues == {UNDEF, ""} \cup Urls
MediaPidValues == {UNDEF, ""} \cup Pids

AddBodies ==
    [title : {UNDEF, "t"}, description : {UNDEF, "d"},
     cloudinaryVideoUrl : MediaUrlValues, cloudinaryVideoPublicId : MediaPidValues,
     cloudinaryThumbnailUrl : MediaUrlValues,
     cloudinaryThumbnailPublicId : MediaPidValues,
     removeVideo : {UNDEF}, removeThumbnail : {UNDEF},
     features : {Absent}, tools : {Absent},
     featuresIndexed : {<<>>}, toolsIndexed : {<<>>}]

UpdateBodies ==
    [title : {UNDEF, ""}, description : {UNDEF},
     cloudinaryVideoUrl : MediaUrlValues, cloudinaryVideoPublicId : MediaPidValues,
     cloudinaryThumbnailUrl : MediaUrlValues,
     cloudinaryThumbnailPublicId : MediaPidValues,
     removeVideo : {UNDEF, "true"}, removeThumbnail : {UNDEF, "true"},
     features : {Absent}, tools : {Absent},
     featuresIndexed : {<<>>}, toolsIndexed : {<<>>}]

\* the files multer hands to the handler
FilesOf(ct) ==
    IF ct = "application/json" THEN {NoFiles}
    ELSE [video : BOOLEAN, thumbnail : BOOLEAN]

\* public ids the media store may assign to an upload: never one in use
FreshPids(rec) ==
    Pids \ {rec.cloudinaryVideoPublicId, rec.cloudinaryThumbnailPublicId}

\* outcomes of the external calls of one request
Envs(rec, files) ==
    [delFails : SUBSET {k \in Kinds :
                          \/ k = "video" /\ Truthy(rec.cloudinaryVideoPublicId)
                          \/ k = "thumbnail" /\ Truthy(rec.cloudinaryThumbnailPublicId)},
     upVideo : IF files.video THEN {"fail"} \cup FreshPids(rec) ELSE {"fail"},
     upThumbnail : IF files.thumbnail THEN {"fail"} \cup FreshPids(rec) ELSE {"fail"}]

\* tokens a client can present: a signed one exists only after a login
TokensNow == {"none", "invalid"} \cup (IF issued THEN {"valid", "expired"} ELSE {})

Served(op, token, ran, id, ct, body, files, pre, res) ==
    [op |-> op, token |-> token, ran |-> ran, id |-> id, ct |-> ct,
     body |-> body, files |-> files, pre |-> pre,
     post |-> findById(res.db, id),
     status |-> res.status, message |-> res.message, trace |-> res.trace,
     project |-> res.project, errors |-> res.errors, saved |-> res.saved,
     cookie |-> NoCookie, user |-> "",
     username |-> "", password |-> "", threw |-> "none",
     folder |-> UNDEF, sig |-> NoSignature]

Unauthorized(op, token, id) ==
    Served(op, token, FALSE, id, "", NoBody, NoFiles, findById(db, id),
           Result(401, "Not authorized", db, <<>>, NullProject))

Idle == Served("none", "none", FALSE, MalformedId, "", NoBody, NoFiles, NullProject,
               Result(0, "", <<>>, <<>>, NullProject))

\* the browser session before the server process has started
NoJar == [cookie |-> NoCookie, exp |-> 0]
SessionConns == [secure : BOOLEAN, xfp : {"https", "http"}]
NoConn == [secure |-> FALSE, xfp |-> "http"]
SessionIdle == [op |-> "none", conn |-> NoConn, status |-> 0, ran |-> FALSE,
                phase |-> "Anonymous", held |-> NoCookie, cleared |-> NoCookie]
SessionInit == [nodeEnv |-> UNDEF, jar |-> NoJar, now |-> 0, exp |-> 0,
                logins |-> FALSE, phase |-> "Anonymous", req |-> SessionIdle]

\* no project created yet whose payload is remembered
FieldsInit == [payload |-> NoBody, files |-> NoFiles, id |-> MalformedId,
               fresh |-> FALSE]

\* no multipart request made yet
NoFile == [fieldname |-> "", originalname |-> <<>>, mimetype |-> <<>>, size |-> 0]
UploadInit == [route |-> "none", file |-> NoFile, accepted |-> FALSE,
               error |-> "", reached |-> {}]
\* requests the server may be handling at once
NumRequests == 3
Requests == 1..NumRequests

\* the process before server.js has run: dbConnected false, mongoose
\* disconnected (readyState 0), no request under way
ServerInit == [mode |-> "boot", dbConnected |-> FALSE, readyState |-> 0,
               starts |-> 0, pc |-> [r \in Requests |-> "idle"],
               status |-> [r \in Requests |-> 0]]
\* no updateProject and no deleteProject under way
NoUpdate == [pc |-> "idle", id |-> MalformedId, body |-> NoBody,
             existingProject |-> NullProject, status |-> 0,
             project |-> NullProject, gone |-> FALSE]
NoDelete == [pc |-> "idle", id |-> MalformedId, project |-> NullProject,
             status |-> 0]
RaceInit == [upd |-> NoUpdate, del |-> NoDelete]
\* no handler invocation under way
NoThrow == [what |-> "", name |-> ""]
PathsInit == [op |-> "none", pc |-> "idle", rest |-> <<>>, sent |-> <<>>,
              thrown |-> NoThrow]
\* no request matched against the app's routes yet
NoRequest == [method |-> "", path |-> <<>>]
RoutedInit == [req |-> [r \in Requests |-> NoRequest],
               direct |-> [r \in Requests |-> FALSE]]
\* longest limit / wait a throttled or debounced function is made with
MaxLimit == 2
\* Date.now() when the page is loaded: far past any limit
Epoch == MaxLimit + 1
\* throttle() not called yet; timers is the browser's table of pending
\* timeouts, log the invocations of func
ThrottledInit == [limit |-> 0, now |-> Epoch, lastCall |-> 0,
                  lastArgs |-> "null", lastThis |-> "null", timeoutId |-> 0,
                  timers |-> {}, nextTimer |-> 1, calls |-> <<>>,
                  log |-> <<>>, punctual |-> TRUE]
\* debounce() not called yet
DebounceInit == [wait |-> 0, immediate |-> FALSE, now |-> Epoch,
                 timeout |-> 0, timers |-> {}, nextTimer |-> 1,
                 calls |-> <<>>, log |-> <<>>, punctual |-> TRUE]
\* useState of ProjectsView's form: the empty form (the keys the model's
\* schema has; the media keys are absent from it)
EmptyForm ==
    [NoBody EXCEPT !.title = "", !.description = "",
                   !.features = Arr(<<>>), !.tools = Arr(<<>>)]

\* no PUT or POST sent by the dashboard yet
NoSubmit ==
    [method |-> "", body |-> NoBody, status |-> 0, pre |-> NullProject,
     post |-> NullProject, touched |-> {}]

\* ProjectsView as mounted: the list fetched, no form open.  touched is the
\* set of media kinds the admin chose a file for, or removed, since the form
\* was opened
DashInit ==
    [projects |-> <<>>, isEditing |-> 0, isAdding |-> FALSE,
     formData |-> EmptyForm, videoFile |-> FALSE, thumbnailFile |-> FALSE,
     existingVideoUrl |-> "null", existingThumbnailUrl |-> "null",
     touched |-> {}, submit |-> NoSubmit]

\* fetchProjects calls one mounted page makes
MaxFetches == 2
\* writes to the server's project list while the page is open
MaxWrites == 2

\* useState([]): the empty list; a list the server holds is named by the
\* number of the write that produced it
EmptyList == 0

\* a fetchProjects call that has not been made
NoFetch == [pc |-> "idle", alternative |-> FALSE, status |-> 0,
            data |-> EmptyList, result |-> EmptyList]

\* ProjectsProvider before its effects run, and the server's list
ProviderInit ==
    [projects |-> EmptyList, loading |-> TRUE, error |-> FALSE,
     mounted |-> FALSE, started |-> <<>>,
     fetch |-> [f \in 1..MaxFetches |-> NoFetch], store |-> 1]

\* no direct upload under way in the admin client
DirectInit == [pc |-> "idle", kind |-> "", file |-> "", folder |-> UNDEF,
               uploadPreset |-> "", uploadParams |-> NoSignature,
               formData |-> <<>>, cloudName |-> ""]

Init ==
    /\ db = <<>>
    /\ nextId = 1
    /\ issued = FALSE
    /\ deleted = {}
    /\ last = Idle
    /\ fields = FieldsInit
    /\ session = SessionInit
    /\ upload = UploadInit
    /\ server = ServerInit
    /\ race = RaceInit
    /\ flow = PathsInit
    /\ direct = DirectInit
    /\ routed = RoutedInit
    /\ thr = ThrottledInit
    /\ deb = DebounceInit
    /\ dash = DashInit
    /\ prov = ProviderInit

GetProjects ==
    /\ last = Idle
    /\ \E token \in TokensNow :
          last' = Served("getProjects", token, admitted("getProjects", token),
                         MalformedId, "", NoBody, NoFiles, NullProject,
                         getProjects(db))
    /\ UNCHANGED <<db, nextId, issued, deleted>>
    /\ UNCHANGED notApi

GetProject ==
    /\ last = Idle
    /\ \E token \in TokensNow, id \in RequestIds :
          last' = Served("getProject", token, admitted("getProject", token),
                         id, "", NoBody, NoFiles, findById(db, id),
                         getProject(db, id))
    /\ UNCHANGED <<db, nextId, issued, deleted>>
    /\ UNCHANGED notApi

PostProject ==
    /\ last = Idle
    /\ nextId \in AssignableIds
    /\ \E token \in TokensNow :
          IF ~admitted("addProject", token)
          THEN /\ last' = Unauthorized("addProject", token, MalformedId)
               /\ UNCHANGED <<db, nextId>>
          ELSE \E ct \in ContentTypes, body \in AddBodies :
               \E sent \in FilesOf(ct) :
               \E env \in Envs(NullProject, optionalUpload(ct, sent)) :
                  LET files == optionalUpload(ct, sent)
                      res == addProject(db, nextId, ct, body, files, env)
                  IN  /\ db' = res.db
                      /\ nextId' = IF res.status = 201 THEN nextId + 1 ELSE nextId
                      /\ last' = Served("addProject", token, TRUE, nextId, ct, body,
                                        files, NullProject, res)
    /\ UNCHANGED <<issued, deleted>>
    /\ UNCHANGED notApi

PutProject ==
    /\ last = Idle
    /\ \E token \in TokensNow, id \in RequestIds :
          IF ~admitted("updateProject", token)
          THEN /\ last' = Unauthorized("updateProject", token, id)
               /\ UNCHANGED db
          ELSE \E ct \in ContentTypes, body \in UpdateBodies :
               \E sent \in FilesOf(ct) :
               \E env \in Envs(findById(db, id), optionalUpload(ct, sent)) :
                  LET files == optionalUpload(ct, sent)
                      res == updateProject(db, id, body, files, env)
                  IN  /\ db' = res.db
                      /\ last' = Served("updateProject", token, TRUE, id, ct, body,
                                        files, findById(db, id), res)
    /\ UNCHANGED <<nextId, issued, deleted>>
    /\ UNCHANGED notApi

DeleteProject ==
    /\ last = Idle
    /\ \E token \in TokensNow, id \in RequestIds :
          IF ~admitted("deleteProject", token)
          THEN /\ last' = Unauthorized("deleteProject", token, id)
               /\ UNCHANGED <<db, deleted>>
          ELSE \E env \in Envs(findById(db, id), NoFiles) :
                  LET res == deleteProject(db, id, env)
                  IN  /\ db' = res.db
                      /\ deleted' = IF res.status = 200 THEN deleted \cup {id}
                                    ELSE deleted
                      /\ last' = Served("deleteProject", token, TRUE, id, "", NoBody,
                                        NoFiles, findById(db, id), res)
    /\ UNCHANGED <<nextId, issued>>
    /\ UNCHANGED notApi

Conns == [nodeEnv : {"production", "development"}, secure : BOOLEAN,
          xfp : {"https", "http"}]

Login ==
    /\ last = Idle
    /\ \E username \in {"admin", "ghost"}, password \in {"secret", "wrong"},
          conn \in Conns, throws \in {"none", "findOne", "sign"} :
          LET r == loginUser(username, password, conn, throws)
          IN  /\ last' = [Served("loginUser", "none", admitted("loginUser", "none"),
                                 MalformedId, "application/json", NoBody,
                                 NoFiles, NullProject,
                                 Result(r.status, r.message, db,
                                        IF throws = "findOne" THEN <<>>
                                        ELSE <<DbRead>>, NullProject))
                          EXCEPT !.cookie = r.cookie, !.user = r.user,
                                 !.username = username, !.password = password,
                                 !.threw = throws]
              /\ issued' = (issued \/ r.status = 200)
    /\ UNCHANGED <<db, nextId, deleted>>
    /\ UNCHANGED notApi

SignatureFolders == {UNDEF, "", " ", "f", " f "}

CloudinarySignature ==
    /\ last = Idle
    /\ \E token \in TokensNow, folder \in SignatureFolders,
          resource_type \in {UNDEF, "video", "image"}, credentials \in BOOLEAN :
          LET r == cloudinarySignature(folder, resource_type, credentials)
          IN  last' = [Served("cloudinarySignature", token,
                              admitted("cloudinarySignature", token),
                              MalformedId, "application/json",
                              NoBody, NoFiles, NullProject,
                              Result(r.status, "", db, <<>>, NullProject))
                       EXCEPT !.sig = r.sig, !.folder = folder]
    /\ UNCHANGED <<db, nextId, issued, deleted>>
    /\ UNCHANGED notApi

\* the response has been sent; the next request is taken up
EndRequest ==
    /\ last # Idle
    /\ last' = Idle
    /\ UNCHANGED <<db, nextId, issued, deleted>>
    /\ UNCHANGED notApi

Next ==
    \/ GetProjects
    \/ GetProject
    \/ PostProject
    \/ PutProject
    \/ DeleteProject
    \/ Login
    \/ CloudinarySignature
    \/ EndRequest

Spec == Init /\ [][Next]_vars

----------------------------------------------------------------------------
(* What the last request did, per media kind *)

BodyUrl(k) == IF k = "video" THEN last.body.cloudinaryVideoUrl
              ELSE last.body.cloudinaryThumbnailUrl
BodyPid(k) == IF k = "video" THEN last.body.cloudinaryVideoPublicId
              ELSE last.body.cloudinaryThumbnailPublicId
BodyRemove(k) == IF k = "video" THEN last.body.removeVideo
                 ELSE last.body.removeThumbnail
BodyFile(k) == IF k = "video" THEN last.files.video ELSE last.files.thumbnail
UrlOf(rec, k) == IF k = "video" THEN rec.cloudinaryVideoUrl
                 ELSE rec.cloudinaryThumbnailUrl
PidOf(rec, k) == IF k = "video" THEN rec.cloudinaryVideoPublicId
                 ELSE rec.cloudinaryThumbnailPublicId

IsDeleteOf(c, k) == c.e = "mediaDelete" /\ c.kind = k
DeleteCalls(k) == SelectSeq(last.trace, LAMBDA c : IsDeleteOf(c, k))
MediaCalls == SelectSeq(last.trace, LAMBDA c : c.e \in {"mediaDelete", "mediaUpload"})
StorageWrites == SelectSeq(last.trace, LAMBDA c : c.e \in {"dbWrite", "dbRemove"})
StorageReads == SelectSeq(last.trace, LAMBDA c : c.e = "dbRead")
FailedDeletes == SelectSeq(last.trace, LAMBDA c : c.e = "mediaDelete" /\ ~c.ok)
FailedUploads == SelectSeq(last.trace, LAMBDA c : c.e = "mediaUpload" /\ ~c.ok)

\* the last request was an updateProject that found its record and came to
\* the media block of kind k
UpdateReached(k) ==
    /\ last.op = "updateProject"
    /\ last.ran
    /\ last.pre # NullProject
    /\ k = "thumbnail" => last.message # "Error uploading video to Cloudinary"

CompletePair(k) == Truthy(BodyUrl(k)) /\ Truthy(BodyPid(k))
RemovalSignal(k) == BodyRemove(k) = "true" \/ BodyUrl(k) = ""

PairedOrEmpty(rec, k) == (UrlOf(rec, k) = "") <=> (PidOf(rec, k) = "")

----------------------------------------------------------------------------
(* Claims C1 - C4: media fields on create and update *)

\* C1: after any successful addProject (201) or updateProject (200), for
\* every request body, the stored video URL is empty iff the stored video
\* public id is empty, and likewise for the thumbnail.
C1_MediaPairing ==
    (last.op \in {"addProject", "updateProject"} /\ last.status \in {200, 201})
        => \A k \in Kinds : PairedOrEmpty(last.post, k)

C3_UntouchedMedia ==
    \A k \in Kinds :
        (UpdateReached(k) /\ ~CompletePair(k) /\ ~RemovalSignal(k) /\ ~BodyFile(k))
            => /\ UrlOf(last.post, k) = UrlOf(last.pre, k)
               /\ PidOf(last.post, k) = PidOf(last.pre, k)
               /\ Len(DeleteCalls(k)) = 0

\* C4: a successful update that signals removal of a media kind (flag
\* 'true' or empty URL) and carries no complete pair for it issues a delete
\* call for the old asset if the record has one, and leaves both the stored
\* URL and the stored public id of the kind empty.
C4_RemovalClears ==
    \A k \in Kinds :
        (UpdateReached(k) /\ last.status = 200
                          /\ RemovalSignal(k) /\ ~CompletePair(k))
            => /\ Truthy(PidOf(last.pre, k)) =>
                     \E i \in 1..Len(DeleteCalls(k)) :
                         DeleteCalls(k)[i].pid = PidOf(last.pre, k)
               /\ UrlOf(last.post, k) = ""
               /\ PidOf(last.post, k) = ""

----------------------------------------------------------------------------
(* Claims C5 - C7: delete, failures of the media store, ids *)

IndexOf(e) == {i \in 1..Len(last.trace) : last.trace[i].e = e}

\* C5: deleteProject on a project with both a video and a thumbnail issues
\* the video delete call and the thumbnail delete call before the record is
\* removed from storage, and once it has answered 200 every later
\* getProject for that id answers 404.
C5_DeleteThenGone ==
    /\ (last.op = "deleteProject" /\ IndexOf("dbRemove") # {}
            /\ Truthy(PidOf(last.pre, "video"))
            /\ Truthy(PidOf(last.pre, "thumbnail")))
          => \A r \in IndexOf("dbRemove") :
                /\ \E i \in 1..(r - 1) :
                      /\ IsDeleteOf(last.trace[i], "video")
                      /\ last.trace[i].pid = PidOf(last.pre, "video")
                /\ \E j \in 1..(r - 1) :
                      /\ IsDeleteOf(last.trace[j], "thumbnail")
                      /\ last.trace[j].pid = PidOf(last.pre, "thumbnail")
    /\ (last.op = "deleteProject" /\ last.status = 200)
          => IndexOf("dbRemove") # {}
    /\ \A id \in deleted : id \notin DOMAIN db
    /\ (last.op = "getProject" /\ last.id \in deleted) => last.status = 404

\* a project with a video and a thumbnail has just been deleted
C5_Witness ==
    /\ last.op = "deleteProject"
    /\ last.status = 200
    /\ Truthy(PidOf(last.pre, "video"))
    /\ Truthy(PidOf(last.pre, "thumbnail"))
    /\ last.id \in deleted

\* C6: a failing media-store delete call never blocks a record mutation:
\* an updateProject or deleteProject on an existing record with otherwise
\* valid input still updates / removes the record and answers 200 when a
\* delete call to the media store fails.
C6_DeleteFailureIsolated ==
    (/\ last.op \in {"updateProject", "deleteProject"}
     /\ last.ran
     /\ last.pre # NullProject
     /\ Len(FailedDeletes) > 0
     /\ Len(FailedUploads) = 0
     /\ validateUpdate(last.body) = {})
        => /\ last.status = 200
           /\ Len(StorageWrites) = 1
           /\ last.op = "deleteProject" => last.id \notin DOMAIN db

\* C7: for getProject, updateProject and deleteProject a malformed id
\* yields 400 without any storage read, storage write or media-store call,
\* and a well-formed id that matches no record yields 404 without any
\* storage write or media-store call.
C7_BadAndUnknownIds ==
    (last.op \in {"getProject", "updateProject", "deleteProject"} /\ last.ran)
        => /\ last.id = MalformedId =>
                 /\ last.status = 400
                 /\ last.trace = <<>>
           /\ (last.id # MalformedId /\ last.pre = NullProject) =>
                 /\ last.status = 404
                 /\ Len(StorageWrites) = 0
                 /\ Len(MediaCalls) = 0
                 /\ last.post = NullProject

\* an update for a well-formed id that no record has was answered 404
C7_Witness ==
    /\ last.op = "updateProject"
    /\ last.ran
    /\ last.id = StrangerId
    /\ last.status = 404

----------------------------------------------------------------------------
(* Claims C8 - C10: authentication *)

WriteRoutes == {"addProject", "updateProject", "deleteProject"}

\* C8: addProject, updateProject and deleteProject, and every storage write
\* or media-store call they make, run only for requests whose session token
\* passed verification (other tokens are answered 401 first); getProjects
\* and getProject run for requests without a token.
C8_WritesNeedToken ==
    /\ last.op \in WriteRoutes =>
          /\ (last.ran \/ last.trace # <<>>) => last.token = "valid"
          /\ last.token # "valid" =>
                (last.status = 401 /\ ~last.ran /\ last.post = last.pre)
    /\ last.op \in {"getProjects", "getProject"} => last.ran

\* a delete with a verified token ran and removed the record
C8_Witness ==
    /\ last.op = "deleteProject"
    /\ last.token = "valid"
    /\ last.ran
    /\ Len(StorageWrites) = 1

\* C9: POST /api/cloudinary-signature returns a signature only to requests
\* that carry a valid session token, and rejects requests without one.
C9_SignatureProtected ==
    last.op = "cloudinarySignature" =>
        /\ last.sig # NoSignature => last.token = "valid"
        /\ last.token # "valid" => last.status = 401

----------------------------------------------------------------------------
(* Project writes with features and tools, and reading the record back *)

\* largest index of a features[i] / tools[i] key
MaxIndex == 2

\* most indexed keys of one list in a request
MaxKeys == 2

FieldValues == {"a", "b", ""}

\* the keys features[i] of a request, in any order, no index twice
IndexedKeys ==
    {keys \in UNION {[1..n -> (0..MaxIndex) \X FieldValues] : n \in 0..MaxKeys} :
        \A i, j \in DOMAIN keys : i # j => keys[i][1] # keys[j][1]}

PlainLists == {Absent, Str("a"), Str(JsonList), Arr(<<"a", "b">>), Arr(<<"b", "a">>)}

ToolKeys == {<<>>, <<<<1, "x">>, <<0, "y">>>>}

\* payloads of a create: every form of the lists without media, and the
\* media pair of the video with the lists given plainly
FieldAddBodies ==
    [title : {"t"}, description : {"d"},
     cloudinaryVideoUrl : {UNDEF}, cloudinaryVideoPublicId : {UNDEF},
     cloudinaryThumbnailUrl : {UNDEF}, cloudinaryThumbnailPublicId : {UNDEF},
     removeVideo : {UNDEF}, removeThumbnail : {UNDEF},
     features : PlainLists, tools : {Absent, Arr(<<"x">>)},
     featuresIndexed : IndexedKeys, toolsIndexed : ToolKeys]
    \cup
    [title : {UNDEF, "t"}, description : {"d"},
     cloudinaryVideoUrl : {UNDEF} \cup Urls,
     cloudinaryVideoPublicId : {UNDEF, PidName[1]},
     cloudinaryThumbnailUrl : {UNDEF}, cloudinaryThumbnailPublicId : {UNDEF},
     removeVideo : {UNDEF}, removeThumbnail : {UNDEF},
     features : {Absent, Arr(<<"b", "a">>)}, tools : {Absent},
     featuresIndexed : {<<>>}, toolsIndexed : {<<>>}]

FieldUpdateBodies ==
    [title : {UNDEF}, description : {UNDEF},
     cloudinaryVideoUrl : {UNDEF}, cloudinaryVideoPublicId : {UNDEF},
     cloudinaryThumbnailUrl : {UNDEF}, cloudinaryThumbnailPublicId : {UNDEF},
     removeVideo : {UNDEF}, removeThumbnail : {UNDEF},
     features : {Absent, Arr(<<"b", "a">>)}, tools : {Absent},
     featuresIndexed : IndexedKeys, toolsIndexed : {<<>>}]

\* the files of a request of this specification: at most a video
FieldFiles(ct) ==
    IF ct = "application/json" THEN {NoFiles}
    ELSE [video : BOOLEAN, thumbnail : {FALSE}]

\* an admitted POST /api/projects
PostFields ==
    /\ last = Idle
    /\ nextId \in AssignableIds
    /\ \E ct \in ContentTypes, body \in FieldAddBodies :
       \E sent \in FieldFiles(ct) :
       \E env \in Envs(NullProject, optionalUpload(ct, sent)) :
          LET files == optionalUpload(ct, sent)
              res == addProject(db, nextId, ct, body, files, env)
          IN  /\ db' = res.db
              /\ nextId' = IF res.status = 201 THEN nextId + 1 ELSE nextId
              /\ last' = Served("addProject", "valid", TRUE, nextId, ct, body,
                                files, NullProject, res)
              /\ fields' = IF res.status = 201
                           THEN [payload |-> body, files |-> files, id |-> nextId,
                                 fresh |-> TRUE]
                           ELSE fields
    /\ UNCHANGED <<issued, deleted>>
    /\ UNCHANGED notFields

\* the created project is about to be written again: its payload is no
\* longer what a read returns, and is forgotten
ForgetPayload ==
    /\ last = Idle
    /\ fields.fresh
    /\ fields' = FieldsInit
    /\ UNCHANGED api
    /\ UNCHANGED notFields

\* an admitted PUT /api/projects/:id on a stored project, without media
PutFields ==
    /\ last = Idle
    /\ ~fields.fresh
    /\ \E id \in DOMAIN db, body \in FieldUpdateBodies :
          LET env == [delFails |-> {}, upVideo |-> "fail", upThumbnail |-> "fail"]
              res == updateProject(db, id, body, NoFiles, env)
          IN  /\ db' = res.db
              /\ last' = Served("updateProject", "valid", TRUE, id,
                                "application/json", body, NoFiles,
                                findById(db, id), res)
    /\ UNCHANGED <<nextId, issued, deleted, fields>>
    /\ UNCHANGED notFields

NextFields ==
    \/ PostFields
    \/ ForgetPayload
    \/ PutFields
    \/ GetProject
    \/ EndRequest

SpecFields == Init /\ [][NextFields]_vars

AcceptedWrite ==
    /\ last.op \in {"addProject", "updateProject"}
    /\ last.status \in {200, 201}

\* stored holds the values of the keys whose value is in vals, one each, in
\* increasing order of their index
KeptInOrder(keys, stored, vals) ==
    LET kept == {k \in DOMAIN keys : keys[k][2] \in vals}
    IN  /\ Len(stored) = Cardinality(kept)
        /\ \E f \in [1..Len(stored) -> kept] :
              /\ \A i, j \in 1..Len(stored) :
                    i < j => keys[f[i]][1] < keys[f[j]][1]
              /\ \A i \in 1..Len(stored) : stored[i] = keys[f[i]][2]

IndexedKeysRemoved ==
    last.saved.featuresIndexed = <<>> /\ last.saved.toolsIndexed = <<>>

\* C13 as stated: for every project write carrying the indexed keys
\* features[i] / tools[i], the stored list holds the supplied values in
\* increasing index order, whatever the order of submission, with unsupplied
\* indices left out and every supplied value kept, and the indexed keys are
\* removed from the body.
C13_Original ==
    AcceptedWrite =>
        /\ Len(last.body.featuresIndexed) > 0 =>
              KeptInOrder(last.body.featuresIndexed, last.post.features,
                          FieldValues \cup {"x", "y"})
        /\ Len(last.body.toolsIndexed) > 0 =>
              KeptInOrder(last.body.toolsIndexed, last.post.tools,
                          FieldValues \cup {"x", "y"})
        /\ IndexedKeysRemoved

\* C13: for every project write carrying the indexed keys features[i] /
\* tools[i], the stored list holds the supplied non-empty values in
\* increasing index order, whatever the order of submission; unsupplied
\* indices and empty values are left out, every non-empty value is kept,
\* and the indexed keys are removed from the body.
C13_IndexedInOrder ==
    AcceptedWrite =>
        /\ Len(last.body.featuresIndexed) > 0 =>
              KeptInOrder(last.body.featuresIndexed, last.post.features,
                          {"a", "b", "x", "y"})
        /\ Len(last.body.toolsIndexed) > 0 =>
              KeptInOrder(last.body.toolsIndexed, last.post.tools,
                          {"a", "b", "x", "y"})
        /\ IndexedKeysRemoved

\* features[2] arrived before features[0], index 1 was not supplied
C13_Witness ==
    /\ AcceptedWrite
    /\ last.body.featuresIndexed = <<<<2, "a">>, <<0, "b">>>>
    /\ last.post.features = <<"b", "a">>

\* a read of the project just created, nothing having written it since
ReadBack ==
    /\ last.op = "getProject"
    /\ last.status = 200
    /\ last.id = fields.id
    /\ fields.fresh

----------------------------------------------------------------------------
(* upload.js: the multer middleware of the project write routes.  Strings  *)
(* the filters look into are sequences of characters.                      *)

\* fileSize limits, in MB
VideoLimitMB == 100
ImageLimitMB == 10
MultipleLimitMB == 100

UpperCase == <<"A", "B", "C", "D", "E", "F", "G", "H", "I", "J", "K", "L", "M",
              "N", "O", "P", "Q", "R", "S", "T", "U", "V", "W", "X", "Y", "Z">>
LowerCase == <<"a", "b", "c", "d", "e", "f", "g", "h", "i", "j", "k", "l", "m",
              "n", "o", "p", "q", "r", "s", "t", "u", "v", "w", "x", "y", "z">>

\* String.prototype.toLowerCase
toLowerCase(str) ==
    [i \in DOMAIN str |->
        IF \E k \in DOMAIN UpperCase : UpperCase[k] = str[i]
        THEN LowerCase[CHOOSE k \in DOMAIN UpperCase : UpperCase[k] = str[i]]
        ELSE str[i]]

\* path.extname: from the last "." to the end; "" when there is none or
\* the name starts with it
extname(name) ==
    LET dots == {i \in DOMAIN name : name[i] = "."}
    IN  IF dots = {} \/ Max(dots) = 1 THEN <<>>
        ELSE SubSeq(name, Max(dots), Len(name))

\* RegExp.prototype.test of an unanchored alternation of literals
test(alternatives, str) ==
    \E w \in alternatives :
        \E i \in 1..(Len(str) - Len(w) + 1) : SubSeq(str, i, i + Len(w) - 1) = w

\* String.prototype.startsWith
startsWith(str, prefix) ==
    Len(str) >= Len(prefix) /\ SubSeq(str, 1, Len(prefix)) = prefix

\* /mp4|mov|avi|wmv|flv|webm|mkv/
videoTypes ==
    {<<"m", "p", "4">>,
     <<"m", "o", "v">>,
     <<"a", "v", "i">>,
     <<"w", "m", "v">>,
     <<"f", "l", "v">>,
     <<"w", "e", "b", "m">>,
     <<"m", "k", "v">>}

\* /jpeg|jpg|png|gif|webp/
imageTypes ==
    {<<"j", "p", "e", "g">>,
     <<"j", "p", "g">>,
     <<"p", "n", "g">>,
     <<"g", "i", "f">>,
     <<"w", "e", "b", "p">>}

VideoSlash == <<"v", "i", "d", "e", "o", "/">>
ImageSlash == <<"i", "m", "a", "g", "e", "/">>

videoFilter(file) ==
    LET extnameOk == test(videoTypes, toLowerCase(extname(file.originalname)))
        mimetype == test(videoTypes, file.mimetype)
                    \/ startsWith(file.mimetype, VideoSlash)
    IN  IF extnameOk /\ mimetype THEN "" ELSE "Only video files are allowed!"

imageFilter(file) ==
    LET extnameOk == test(imageTypes, toLowerCase(extname(file.originalname)))
        mimetype == test(imageTypes, file.mimetype)
                    \/ startsWith(file.mimetype, ImageSlash)
    IN  IF extnameOk /\ mimetype THEN "" ELSE "Only image files are allowed!"

\* the fileFilter of uploadMultiple: "" when the file is let through
fileFilter(file) ==
    IF file.fieldname = "video" THEN videoFilter(file)
    ELSE IF file.fieldname = "thumbnail" THEN imageFilter(file)
    ELSE "Invalid file type!"

\* uploadMultiple on a request with one file: the error it ends with, ""
\* when the file is handed to the handler
uploadMultiple(file) ==
    IF fileFilter(file) # "" THEN fileFilter(file)
    ELSE IF file.size > MultipleLimitMB THEN "File too large"
    ELSE ""

FileNames ==
    {<<"a", ".", "m", "p", "4">>,
     <<"A", ".", "M", "P", "4">>,
     <<"a", ".", "m", "p", "4", "v">>,
     <<"a", ".", "t", "x", "t">>,
     <<"a", ".", "p", "n", "g">>,
     <<"a", ".", "j", "p", "g">>,
     <<"a", ".", "a", "p", "n", "g">>,
     <<"m", "p", "4">>}

MimeTypes ==
    {<<"v", "i", "d", "e", "o", "/", "m", "p", "4">>,
     <<"v", "i", "d", "e", "o", "/", "o", "g", "g">>,
     <<"i", "m", "a", "g", "e", "/", "p", "n", "g">>,
     <<"i", "m", "a", "g", "e", "/", "b", "m", "p">>,
     <<"t", "e", "x", "t", "/", "p", "l", "a", "i", "n">>,
     <<"a", "p", "p", "l", "i", "c", "a", "t", "i", "o", "n", "/", "m", "p", "4">>}

FileSizesMB ==
    {1, ImageLimitMB, ImageLimitMB + 1, VideoLimitMB, VideoLimitMB + 1}

UploadFiles ==
    [fieldname : {"video", "thumbnail", "file"}, originalname : FileNames,
     mimetype : MimeTypes, size : FileSizesMB]

TitledBody == [NoBody EXCEPT !.title = "t", !.description = "d"]

\* the handler of the route run on the files multer handed over
handled(route, files) ==
    LET env == [delFails |-> {}, upVideo |-> PidName[1], upThumbnail |-> PidName[2]]
    IN  IF route = "addProject"
        THEN addProject(<<>>, 1, "multipart/form-data", TitledBody, files, env)
        ELSE updateProject((1 :> newProject(1, TitledBody)), 1, NoBody, files, env)

\* a multipart POST or PUT of a project with one file, admitted by protect
UploadWrite ==
    /\ upload = UploadInit
    /\ \E route \in {"addProject", "updateProject"}, file \in UploadFiles :
          LET error == uploadMultiple(file)
              files == IF error # "" THEN NoFiles
                       ELSE [video |-> file.fieldname = "video",
                             thumbnail |-> file.fieldname = "thumbnail"]
              trace == IF error # "" THEN <<>>
                       ELSE handled(route, optionalUpload("multipart/form-data",
                                                          files)).trace
          IN  upload' = [route |-> route, file |-> file, accepted |-> error = "",
                         error |-> error,
                         reached |-> {trace[i].kind :
                                        i \in {j \in DOMAIN trace :
                                                 trace[j].e = "mediaUpload"}}]
    /\ UNCHANGED notUpload

\* the response is sent; the middleware keeps nothing of the request
UploadEnd ==
    /\ upload # UploadInit
    /\ upload' = UploadInit
    /\ UNCHANGED notUpload

NextUpload ==
    \/ UploadWrite
    \/ UploadEnd

SpecUpload == Init /\ [][NextUpload]_vars

\* the extension of the file, without the dot and in lower case
Extension == Tail(toLowerCase(extname(upload.file.originalname)))

KindTypes == IF upload.file.fieldname = "video" THEN videoTypes ELSE imageTypes
KindSlash == IF upload.file.fieldname = "video" THEN VideoSlash ELSE ImageSlash

\* C17: a file is accepted by the upload filter only if its extension is in
\* the allow-list of its kind and its declared content-type is in that
\* allow-list too; a file that fails either test is rejected.
C17_AllowListed ==
    upload.accepted =>
        /\ extname(upload.file.originalname) # <<>>
        /\ Extension \in KindTypes
        /\ upload.file.mimetype \in {KindSlash \o t : t \in KindTypes}

\* C18: on the multipart project write routes a video above 100 MB is
\* rejected and a thumbnail above 10 MB is rejected, so that no image above
\* 10 MB reaches the media store.
C18_SizeCeilings ==
    /\ (upload.file.fieldname = "video" /\ upload.file.size > VideoLimitMB) =>
          (~upload.accepted /\ upload.reached = {})
    /\ (upload.file.fieldname = "thumbnail" /\ upload.file.size > ImageLimitMB) =>
          (~upload.accepted /\ upload.reached = {})

----------------------------------------------------------------------------
(* server.js and db.js: the database connection.  A request runs until   *)
(* its next await; server.starts counts the calls of mongoose.connect    *)
(* since the last failed attempt.                                        *)

\* on Vercel the app is exported and serves at once
StartVercel ==
    /\ server.mode = "boot"
    /\ server' = [server EXCEPT !.mode = "listening"]
    /\ UNCHANGED notServer

\* startServer: connectDB() up to its await of mongoose.connect
StartLocal ==
    /\ server.mode = "boot"
    /\ server' = [server EXCEPT !.mode = "starting", !.readyState = 2,
                                !.starts = @ + 1]
    /\ UNCHANGED notServer

\* startServer after the await: dbConnected = true; app.listen
StartLocalConnected ==
    /\ server.mode = "starting"
    /\ server' = [server EXCEPT !.mode = "listening", !.readyState = 1,
                                !.dbConnected = TRUE]
    /\ UNCHANGED notServer

\* connectDB's catch off Vercel: process.exit(1)
StartLocalFailed ==
    /\ server.mode = "starting"
    /\ server' = [server EXCEPT !.mode = "exited", !.readyState = 0,
                                !.starts = 0]
    /\ UNCHANGED notServer

\* ensureDBConnection up to its first await: next() when dbConnected;
\* else connectDB(), which returns when readyState is 1 and otherwise
\* calls mongoose.connect and awaits it
EnsureDBConnection(r) ==
    /\ server.mode = "listening"
    /\ server.pc[r] = "idle"
    /\ server' =
         IF server.dbConnected
         THEN [server EXCEPT !.pc[r] = "next", !.status[r] = 200]
         ELSE IF server.readyState = 1
         THEN [server EXCEPT !.dbConnected = TRUE, !.pc[r] = "next",
                             !.status[r] = 200]
         ELSE [server EXCEPT !.readyState = 2, !.starts = @ + 1,
                             !.pc[r] = "connecting"]
    /\ UNCHANGED notServer

\* mongoose.connect resolved: dbConnected = true; next()
Connected(r) ==
    /\ server.pc[r] = "connecting"
    /\ server.readyState \in {1, 2}
    /\ server' = [server EXCEPT !.readyState = 1, !.dbConnected = TRUE,
                                !.pc[r] = "next", !.status[r] = 200]
    /\ UNCHANGED notServer

\* mongoose.connect rejected: connectDB rethrows, the request ends with 500
ConnectFailed(r) ==
    /\ server.pc[r] = "connecting"
    /\ server.readyState \in {0, 2}
    /\ server' = [server EXCEPT !.readyState = 0, !.starts = 0,
                                !.pc[r] = "failed", !.status[r] = 500]
    /\ UNCHANGED notServer

\* the response is sent
Responded(r) ==
    /\ server.pc[r] \in {"next", "failed"}
    /\ server' = [server EXCEPT !.pc[r] = "idle", !.status[r] = 0]
    /\ UNCHANGED notServer

NextServer ==
    \/ StartVercel
    \/ StartLocal
    \/ StartLocalConnected
    \/ StartLocalFailed
    \/ \E r \in Requests : EnsureDBConnection(r)
    \/ \E r \in Requests : Connected(r)
    \/ \E r \in Requests : ConnectFailed(r)
    \/ \E r \in Requests : Responded(r)

SpecServer == Init /\ [][NextServer]_vars

\* C19: the database connection is established once: whatever the number
\* of concurrent requests while dbConnected is false and however their
\* ensureDBConnection calls interleave, mongoose.connect is started at most
\* once, and once dbConnected is true no request starts it again.
C19_ConnectOnce ==
    /\ server.starts <= 1
    /\ server.dbConnected =>
          \A r \in Requests : server.pc[r] = "connecting" => server.readyState = 1

----------------------------------------------------------------------------
(* updateProject and deleteProject running at once on the same project:  *)
(* each handler is cut at the awaits of its storage calls.               *)

\* Project.findByIdAndUpdate(id, body, {new: true}): the updated document,
\* or null when no document has the id
findByIdAndUpdate(d, id, body) ==
    IF id \in DOMAIN d
    THEN [db |-> [d EXCEPT ![id] = mergeBody(d[id], body)],
          doc |-> mergeBody(d[id], body)]
    ELSE [db |-> d, doc |-> NullProject]

RaceAddBodies ==
    {TitledBody,
     [TitledBody EXCEPT !.cloudinaryVideoUrl = UploadUrl,
                        !.cloudinaryVideoPublicId = PidName[1]]}

RaceUpdateBodies ==
    {[NoBody EXCEPT !.title = title, !.cloudinaryVideoUrl = pair[1],
                    !.cloudinaryVideoPublicId = pair[2], !.removeVideo = remove] :
        title \in {UNDEF, "", "t2"},
        pair \in {<<UNDEF, UNDEF>>, <<UploadUrl, PidName[2]>>},
        remove \in {UNDEF, "true"}}

NoFailure == [delFails |-> {}, upVideo |-> "fail", upThumbnail |-> "fail"]

\* an admitted JSON POST /api/projects
RaceCreate ==
    /\ nextId \in AssignableIds
    /\ \E body \in RaceAddBodies :
          LET res == addProject(db, nextId, "application/json", body, NoFiles,
                                NoFailure)
          IN  /\ db' = res.db
              /\ nextId' = nextId + 1
    /\ UNCHANGED race
    /\ UNCHANGED notRace

\* updateProject up to the await of Project.findById
UpdateFind ==
    /\ race.upd.pc = "idle"
    /\ \E id \in RequestIds, body \in RaceUpdateBodies :
          race' = [race EXCEPT !.upd =
                     IF ~isValid(id)
                     THEN [NoUpdate EXCEPT !.pc = "responded", !.id = id,
                                           !.status = 400]
                     ELSE IF findById(db, id) = NullProject
                     THEN [NoUpdate EXCEPT !.pc = "responded", !.id = id,
                                           !.status = 404]
                     ELSE [NoUpdate EXCEPT !.pc = "found", !.id = id,
                                           !.body = body,
                                           !.existingProject = findById(db, id)]]
    /\ UNCHANGED <<db, nextId>>
    /\ UNCHANGED notRace

\* updateProject from the record it found to its response: the media
\* blocks, Project.findByIdAndUpdate, res.status(200)
UpdateWrite ==
    /\ race.upd.pc = "found"
    /\ LET u == race.upd
           v == handleVideo(u.existingProject, normalizeBody(u.body), NoFiles,
                            NoFailure)
           t == handleThumbnail(u.existingProject, v.body, NoFiles, NoFailure)
           w == findByIdAndUpdate(db, u.id, t.body)
       IN  IF validateUpdate(t.body) # {}
           THEN /\ race' = [race EXCEPT !.upd.pc = "responded",
                                        !.upd.status = 400,
                                        !.upd.gone = u.id \notin DOMAIN db]
                /\ UNCHANGED db
           ELSE /\ race' = [race EXCEPT !.upd.pc = "responded",
                                        !.upd.status = 200,
                                        !.upd.project = w.doc,
                                        !.upd.gone = u.id \notin DOMAIN db]
                /\ db' = w.db
    /\ UNCHANGED nextId
    /\ UNCHANGED notRace

\* deleteProject up to the await of Project.findById
DeleteFind ==
    /\ race.del.pc = "idle"
    /\ \E id \in RequestIds :
          race' = [race EXCEPT !.del =
                     IF ~isValid(id)
                     THEN [NoDelete EXCEPT !.pc = "responded", !.id = id,
                                           !.status = 400]
                     ELSE IF findById(db, id) = NullProject
                     THEN [NoDelete EXCEPT !.pc = "responded", !.id = id,
                                           !.status = 404]
                     ELSE [NoDelete EXCEPT !.pc = "found", !.id = id,
                                           !.project = findById(db, id)]]
    /\ UNCHANGED <<db, nextId>>
    /\ UNCHANGED notRace

\* deleteProject from the record it found to its response: the media
\* deletes (one of which may throw), Project.findByIdAndDelete
DeleteRemove ==
    /\ race.del.pc = "found"
    /\ \E throws \in BOOLEAN :
          IF throws /\ Truthy(race.del.project.cloudinaryVideoPublicId)
          THEN /\ race' = [race EXCEPT !.del.pc = "responded",
                                       !.del.status = 500]
               /\ UNCHANGED db
          ELSE /\ race' = [race EXCEPT !.del.pc = "responded",
                                       !.del.status = 200]
               /\ db' = IF race.del.id \in DOMAIN db
                        THEN Without(db, race.del.id) ELSE db
    /\ UNCHANGED nextId
    /\ UNCHANGED notRace

\* both responses are sent
RaceEnd ==
    /\ race.upd.pc \in {"idle", "responded"}
    /\ race.del.pc \in {"idle", "responded"}
    /\ race # RaceInit
    /\ race' = RaceInit
    /\ UNCHANGED <<db, nextId>>
    /\ UNCHANGED notRace

NextRace ==
    \/ RaceCreate
    \/ UpdateFind
    \/ UpdateWrite
    \/ DeleteFind
    \/ DeleteRemove
    \/ RaceEnd

SpecRace == Init /\ [][NextRace]_vars

\* C20: updateProject returns the updated record or NotFound, also when a
\* deleteProject of the same id runs at the same time: in every interleaving
\* a 200 of updateProject carries a non-null record, and an update whose
\* record was removed before its write responds 404.
C20_UpdatedOrNotFound ==
    race.upd.pc = "responded" =>
        /\ race.upd.status = 200 => race.upd.project # NullProject
        /\ (race.upd.gone /\ race.upd.status # 400) => race.upd.status = 404

----------------------------------------------------------------------------
(* Session: the browser's cookie across login, logout and token expiry *)

\* life of the signed token (expiresIn "1d") and of its cookie (maxAge), hours
TokenLifeHours == 24

\* last hour of the clock
MaxClock == 48

\* logoutUser: the options it passes to res.clearCookie, and its response
logoutUser(nodeEnv, conn) ==
    [status |-> 200, message |-> "Logout successful",
     cleared |-> tokenCookie(isProduction(nodeEnv, conn.secure, conn.xfp))]

\* the attributes both res.cookie and res.clearCookie are given
attributes(cookie) ==
    <<cookie.httpOnly, cookie.secure, cookie.sameSite, cookie.path>>

\* the client reached the server over TLS (directly or through a proxy)
clientTls(conn) == conn.secure \/ conn.xfp = "https"

\* the browser keeps a Set-Cookie; a Secure cookie only when it came over TLS
browserStores(jar, cookie, conn, now) ==
    IF cookie.set /\ (cookie.secure => clientTls(conn))
    THEN [cookie |-> cookie, exp |-> now + TokenLifeHours]
    ELSE jar

\* res.clearCookie clears the browser's cookie only when its options are
\* identical to those the cookie was set with
browserClears(jar, cleared) ==
    IF jar.cookie.set /\ attributes(cleared) = attributes(jar.cookie)
    THEN NoJar
    ELSE jar

\* the token a protected request carries: the browser's cookie, unless it
\* has none, the cookie is Secure and the link is not, or the token expired
browserSends(jar, conn, now) ==
    IF ~jar.cookie.set \/ (jar.cookie.secure /\ ~clientTls(conn))
    THEN "none"
    ELSE IF now >= jar.exp THEN "expired" ELSE "valid"

\* the process starts with its NODE_ENV
SessionStart ==
    /\ session.nodeEnv = UNDEF
    /\ \E nodeEnv \in {"production", "development"} :
          session' = [session EXCEPT !.nodeEnv = nodeEnv]
    /\ UNCHANGED notSession

SessionLogin ==
    /\ session.nodeEnv # UNDEF
    /\ \E username \in {"admin", "ghost"}, password \in {"secret", "wrong"},
          conn \in SessionConns :
          LET r == loginUser(username, password,
                             [nodeEnv |-> session.nodeEnv, secure |-> conn.secure,
                              xfp |-> conn.xfp], "none")
          IN  session' =
                [session EXCEPT
                   !.jar = browserStores(@, r.cookie, conn, session.now),
                   !.exp = IF r.status = 200 THEN session.now + TokenLifeHours
                           ELSE @,
                   !.logins = @ \/ r.status = 200,
                   !.phase = IF r.status = 200 THEN "Authenticated" ELSE @,
                   !.req = [op |-> "login", conn |-> conn, status |-> r.status,
                            ran |-> TRUE, phase |-> session.phase,
                            held |-> session.jar.cookie, cleared |-> NoCookie]]
    /\ UNCHANGED notSession

SessionLogout ==
    /\ session.nodeEnv # UNDEF
    /\ \E conn \in SessionConns :
          LET r == logoutUser(session.nodeEnv, conn)
          IN  session' =
                [session EXCEPT
                   !.jar = browserClears(@, r.cleared),
                   !.phase = "Anonymous",
                   !.req = [op |-> "logout", conn |-> conn, status |-> r.status,
                            ran |-> TRUE, phase |-> session.phase,
                            held |-> session.jar.cookie, cleared |-> r.cleared]]
    /\ UNCHANGED notSession

\* a request to one of the protected project routes
SessionRequest ==
    /\ session.nodeEnv # UNDEF
    /\ \E conn \in SessionConns,
          route \in {"addProject", "updateProject", "deleteProject"} :
          LET token == browserSends(session.jar, conn, session.now)
          IN  session' =
                [session EXCEPT
                   !.req = [op |-> route, conn |-> conn,
                            status |-> IF admitted(route, token) THEN 200 ELSE 401,
                            ran |-> admitted(route, token),
                            phase |-> session.phase,
                            held |-> session.jar.cookie, cleared |-> NoCookie]]
    /\ UNCHANGED notSession

\* half a token life passes; the session ends when the token has expired
SessionTick ==
    /\ session.now + TokenLifeHours \div 2 <= MaxClock
    /\ LET now == session.now + TokenLifeHours \div 2
       IN  session' =
             [session EXCEPT
                !.now = now,
                !.phase = IF now >= session.exp THEN "Anonymous" ELSE @]
    /\ UNCHANGED notSession

NextSession ==
    \/ SessionStart
    \/ SessionLogin
    \/ SessionLogout
    \/ SessionRequest
    \/ SessionTick

SpecSession == Init /\ [][NextSession]_vars

ProtectedRequest ==
    session.req.op \in {"addProject", "updateProject", "deleteProject"}

\* C11: a session is Authenticated only after a successful login; after an
\* explicit logout or the 24-hour expiry it is Anonymous again, and every
\* protected request made while it is Anonymous is rejected as Unauthorized.
C11_AnonymousRejected ==
    /\ session.phase = "Authenticated" => session.logins
    /\ (ProtectedRequest /\ session.req.ran) => session.logins
    /\ (ProtectedRequest /\ session.req.phase = "Anonymous") =>
          (~session.req.ran /\ session.req.status = 401)

\* C12: logoutUser clears the token cookie with attributes (httpOnly,
\* secure, sameSite, path) equal to those loginUser set it with, whatever
\* req.secure and x-forwarded-proto the login and the logout request had.
C12_LogoutMatchesLogin ==
    (session.req.op = "logout" /\ session.req.held.set) =>
        attributes(session.req.cleared) = attributes(session.req.held)

----------------------------------------------------------------------------
(* Claims C14, C16 *)

MissingRequired ==
    /\ last.op = "addProject"
    /\ last.ran
    /\ (last.body.title = UNDEF \/ last.body.description = UNDEF)

NamesMissing ==
    /\ last.body.title = UNDEF => "title" \in DOMAIN last.errors
    /\ last.body.description = UNDEF => "description" \in DOMAIN last.errors

\* C14 as stated: addProject with a payload missing title or description
\* responds 400 with an errors mapping that has an entry for each missing
\* field, and persists no record.
C14_Original ==
    MissingRequired =>
        /\ last.status = 400
        /\ NamesMissing
        /\ Len(StorageWrites) = 0
        /\ last.post = NullProject

\* C14: addProject with a payload missing title or description persists no
\* record; it responds 400 with an errors mapping that has an entry for each
\* missing field, except when an upload of an attached file failed before
\* the save, where it responds 500.
C14_MissingRequired ==
    MissingRequired =>
        /\ Len(StorageWrites) = 0
        /\ last.post = NullProject
        /\ Len(FailedUploads) = 0 => (last.status = 400 /\ NamesMissing)
        /\ Len(FailedUploads) > 0 => last.status = 500

\* a create without a title was answered 400 naming title
C14_Witness ==
    /\ last.op = "addProject"
    /\ last.body.title = UNDEF
    /\ last.body.description # UNDEF
    /\ last.status = 400
    /\ DOMAIN last.errors = {"title"}

SignedNames == {last.sig.signed[i][1] : i \in 1..Len(last.sig.signed)}

\* C16: the upload signature is computed over exactly the timestamp, plus
\* the folder when the folder is non-empty after trimming; resource_type,
\* cloud_name and api_key are never signed, and resource_type and
\* cloud_name are present in every response that carries a signature.
C16_SignedParams ==
    (last.op = "cloudinarySignature" /\ last.sig # NoSignature) =>
        /\ last.folder \in {"f", " f "} =>
              last.sig.signed = <<<<"folder", "f">>, <<"timestamp", last.sig.timestamp>>>>
        /\ last.folder \in {UNDEF, "", " "} =>
              last.sig.signed = <<<<"timestamp", last.sig.timestamp>>>>
        /\ SignedNames \cap {"resource_type", "cloud_name", "api_key"} = {}
        /\ last.sig.resource_type \in {"auto", "video", "image"}
        /\ last.sig.cloud_name # ""

\* a signature was issued for a folder given with surrounding blanks
C16_Witness ==
    /\ last.op = "cloudinarySignature"
    /\ last.folder = " f "
    /\ last.sig # NoSignature
    /\ Len(last.sig.signed) = 2

----------------------------------------------------------------------------
(* The flow through the handlers: what each awaits, where an exception    *)
(* goes, and the responses it sends                                        *)

\* an awaited (or plain) call that may throw one of `errors`; caught says
\* where its exception goes: "outer" to the handler's catch block, "resume"
\* to an inner catch that only logs, "return500" to an inner catch that
\* sends 500 and returns
Await(what, errors, caught) ==
    [k |-> "await", what |-> what, errors |-> errors, caught |-> caught,
     status |-> 0]

\* res.status(status).json(...)
Send(status) ==
    [k |-> "send", what |-> "", errors |-> {}, caught |-> "", status |-> status]

StorageCalls ==
    {"find", "findById", "save", "findByIdAndUpdate", "findByIdAndDelete",
     "findOne"}
UploadCalls == {"uploadVideoToCloudinary", "uploadImageToCloudinary"}

PathOps ==
    {"getProjects", "getProject", "addProject", "updateProject",
     "deleteProject", "loginUser"}

\* the signals of one media kind in a request, and the stored public id:
\* none, the one the request names, or another
MediaCases ==
    [pair : BOOLEAN, remove : BOOLEAN, file : BOOLEAN,
     old : {"none", "same", "other"}]

PathRequests ==
    [op : PathOps, valid : BOOLEAN, found : BOOLEAN, json : BOOLEAN,
     password : BOOLEAN, video : MediaCases, thumbnail : MediaCases]

deleteOf(kind) ==
    IF kind = "video" THEN "deleteVideoFromCloudinary"
    ELSE "deleteImageFromCloudinary"

uploadOf(kind) ==
    IF kind = "video" THEN "uploadVideoToCloudinary"
    ELSE "uploadImageToCloudinary"

\* the media block of updateProject for one kind
mediaSteps(kind, m, json) ==
    LET del == <<Await(deleteOf(kind), {"Error"}, "resume")>>
    IN  IF m.pair
        THEN IF m.old = "other" THEN del ELSE <<>>
        ELSE IF m.remove
        THEN IF m.old # "none" THEN del ELSE <<>>
        ELSE IF m.file /\ ~json
        THEN (IF m.old # "none" THEN del ELSE <<>>)
             \o <<Await(uploadOf(kind), {"Error"}, "return500")>>
        ELSE <<>>

\* the upload of an attached file in addProject's multipart path
addSteps(kind, m) ==
    IF m.file THEN <<Await(uploadOf(kind), {"Error"}, "return500")>> ELSE <<>>

\* the statements of the handler's try block this request runs through
tryBlock(req) ==
    CASE req.op = "getProjects" ->
           <<Await("find", {"Error"}, "outer"), Send(200)>>
      [] req.op = "getProject" ->
           IF ~req.valid THEN <<Send(400)>>
           ELSE <<Await("findById", {"Error"}, "outer")>>
                \o (IF ~req.found THEN <<Send(404)>> ELSE <<Send(200)>>)
      [] req.op = "addProject" ->
           (IF req.json THEN <<>>
            ELSE addSteps("video", req.video)
                 \o addSteps("thumbnail", req.thumbnail))
           \o <<Await("save", {"Error", "ValidationError"}, "outer"),
                Send(201)>>
      [] req.op = "updateProject" ->
           IF ~req.valid THEN <<Send(400)>>
           ELSE <<Await("findById", {"Error"}, "outer")>>
                \o (IF ~req.found THEN <<Send(404)>>
                    ELSE mediaSteps("video", req.video, req.json)
                         \o mediaSteps("thumbnail", req.thumbnail, req.json)
                         \o <<Await("findByIdAndUpdate",
                                    {"Error", "ValidationError"}, "outer"),
                              Send(200)>>)
      [] req.op = "deleteProject" ->
           IF ~req.valid THEN <<Send(400)>>
           ELSE <<Await("findById", {"Error"}, "outer")>>
                \o (IF ~req.found THEN <<Send(404)>>
                    ELSE (IF req.video.old # "none"
                          THEN <<Await(deleteOf("video"), {"Error"}, "outer")>>
                          ELSE <<>>)
                         \o (IF req.thumbnail.old # "none"
                             THEN <<Await(deleteOf("thumbnail"), {"Error"},
                                          "outer")>>
                             ELSE <<>>)
                         \o <<Await("findByIdAndDelete", {"Error"}, "outer"),
                              Send(200)>>)
      [] req.op = "loginUser" ->
           <<Await("findOne", {"Error"}, "outer")>>
           \o (IF ~req.found THEN <<Send(404)>>
               ELSE IF ~req.password THEN <<Send(401)>>
               ELSE <<Await("jwt.sign", {"Error"}, "outer"), Send(200)>>)

\* the error object of a thrown exception
thrownError(name) ==
    IF name = "ValidationError" THEN ValidationError({"title"})
    ELSE [name |-> name, errors |-> <<>>]

\* the catch block without the return after the 400
catchBlock_fallsThrough(op, error) ==
    IF op \in {"addProject", "updateProject"}
    THEN IF ~extractValidationErrors(error).null
         THEN <<400, 500>>
         ELSE <<500>>
    ELSE <<500>>

\* the responses the handler's catch block sends
catchBlock(op, error) ==
    IF op \in {"addProject", "updateProject"}
    THEN IF ~extractValidationErrors(error).null
         THEN <<400>>
         ELSE <<500>>
    ELSE <<500>>

\* a handler is invoked
PathBegin ==
    /\ flow = PathsInit
    /\ \E req \in PathRequests :
          flow' = [PathsInit EXCEPT !.op = req.op, !.pc = "try",
                                     !.rest = tryBlock(req)]
    /\ UNCHANGED notFlow

\* the call at hand returns
PathAwait ==
    /\ flow.pc = "try"
    /\ flow.rest # <<>>
    /\ Head(flow.rest).k = "await"
    /\ flow' = [flow EXCEPT !.rest = Tail(@)]
    /\ UNCHANGED notFlow

\* the call at hand throws
PathThrow ==
    /\ flow.pc = "try"
    /\ flow.rest # <<>>
    /\ Head(flow.rest).k = "await"
    /\ \E name \in Head(flow.rest).errors :
          LET step == Head(flow.rest)
              t == [what |-> step.what, name |-> name]
          IN  CASE step.caught = "resume" ->
                     flow' = [flow EXCEPT !.rest = Tail(@)]
                [] step.caught = "return500" ->
                     flow' = [flow EXCEPT !.rest = <<>>, !.thrown = t,
                                            !.sent = Append(@, 500)]
                [] step.caught = "outer" ->
                     flow' = [flow EXCEPT
                                 !.rest = <<>>, !.thrown = t,
                                 !.sent = @ \o catchBlock(flow.op,
                                                          thrownError(name))]
    /\ UNCHANGED notFlow

\* a response is sent from the try block
PathSend ==
    /\ flow.pc = "try"
    /\ flow.rest # <<>>
    /\ Head(flow.rest).k = "send"
    /\ flow' = [flow EXCEPT !.rest = Tail(@),
                              !.sent = Append(@, Head(flow.rest).status)]
    /\ UNCHANGED notFlow

\* the handler's promise settles
PathReturn ==
    /\ flow.pc = "try"
    /\ flow.rest = <<>>
    /\ flow' = [flow EXCEPT !.pc = "done"]
    /\ UNCHANGED notFlow

PathEnd ==
    /\ flow.pc = "done"
    /\ flow' = PathsInit
    /\ UNCHANGED notFlow

NextPaths ==
    \/ PathBegin
    \/ PathAwait
    \/ PathThrow
    \/ PathSend
    \/ PathReturn
    \/ PathEnd

SpecPaths == Init /\ [][NextPaths]_vars

\* C21: every invocation of getProjects, getProject, addProject,
\* updateProject, deleteProject and loginUser ends with exactly one HTTP
\* response on every path: an exception of a storage call or of a
\* media-store upload is answered with 500 (400 for a validation error),
\* and no path sends two responses or none.
C21_OneResponse ==
    flow.pc = "done" =>
        /\ Len(flow.sent) = 1
        /\ flow.thrown.what \in StorageCalls \cup UploadCalls =>
              flow.sent[1] = IF flow.thrown.name = "ValidationError"
                              THEN 400 ELSE 500

\* an updateProject whose findByIdAndUpdate failed validation ended with
\* the single response 400
C21_Witness ==
    /\ flow.pc = "done"
    /\ flow.op = "updateProject"
    /\ flow.thrown = [what |-> "findByIdAndUpdate", name |-> "ValidationError"]
    /\ flow.sent = <<400>>

----------------------------------------------------------------------------
(* Claims C22, C29: updateProject's media signals and its failures *)

\* C22: when an updateProject request supplies both a complete new
\* URL+publicId pair and the removal flag 'true' for the same media kind,
\* the removal flag takes precedence: the old asset is deleted and the
\* stored URL and publicId of that kind are cleared rather than set to the
\* new pair.
C22_RemovalPrecedence ==
    \A k \in Kinds :
        (UpdateReached(k) /\ last.status = 200
         /\ CompletePair(k) /\ BodyRemove(k) = "true") =>
            /\ Truthy(PidOf(last.pre, k)) =>
                  \E i \in 1..Len(DeleteCalls(k)) :
                      DeleteCalls(k)[i].pid = PidOf(last.pre, k)
            /\ UrlOf(last.post, k) = ""
            /\ PidOf(last.post, k) = ""

\* C29: if an updateProject request ends with a non-200 response, no
\* media-store delete call was issued for an asset that the stored record
\* still references.
C29_NoDanglingReference ==
    (last.op = "updateProject" /\ last.ran /\ last.status # 200
     /\ last.post # NullProject) =>
        \A k \in Kinds :
            \A i \in 1..Len(DeleteCalls(k)) :
                DeleteCalls(k)[i].pid # PidOf(last.post, k)

----------------------------------------------------------------------------
(* The admin client's direct upload to the media store (cloudinaryUpload   *)
(* of the front end): the signature request and the form it sends          *)

\* folders the callers pass (an omitted folder takes the default)
UploadFolders ==
    (SignatureFolders \ {UNDEF}) \cup {"project-videos", "project-thumbnails"}

\* what the fetch of /api/cloudinary-signature may come to
SignatureOutcomes == {"ok", "unconfigured", "network error"}

\* the fields appended on the signed branch; FormData holds strings
signedFields(uploadParams) ==
    <<<<"api_key", uploadParams.api_key>>,
      <<"timestamp", uploadParams.timestamp>>,
      <<"signature", uploadParams.signed>>>>
    \o (IF Truthy(uploadParams.folder) /\ trim(uploadParams.folder) # ""
        THEN <<<<"folder", trim(uploadParams.folder)>>>> ELSE <<>>)
    \o (IF Truthy(uploadParams.resource_type)
           /\ uploadParams.resource_type # "auto"
        THEN <<<<"resource_type", uploadParams.resource_type>>>> ELSE <<>>)

\* the fields appended on the unsigned branch
unsignedFields(kind, folder, uploadPreset) ==
    <<<<"upload_preset", IF Truthy(uploadPreset) THEN uploadPreset
                         ELSE "unsigned_" \o kind>>,
      <<"folder", folder>>,
      <<"resource_type", kind>>>>

\* the FormData of uploadVideoToCloudinary
uploadVideoToCloudinary(file, folder, uploadPreset, uploadParams) ==
    <<<<"file", file>>>>
    \o (IF uploadParams # NoSignature
        THEN signedFields(uploadParams)
        ELSE unsignedFields("video", folder, uploadPreset))
    \o <<<<"chunk_size", "6000000">>>>

\* the FormData of uploadImageToCloudinary
uploadImageToCloudinary(file, folder, uploadPreset, uploadParams) ==
    <<<<"file", file>>>>
    \o (IF uploadParams # NoSignature
        THEN signedFields(uploadParams)
        ELSE unsignedFields("image", folder, uploadPreset))

\* the client asks the server for signed upload parameters
DirectSign ==
    /\ direct = DirectInit
    /\ \E kind \in {"video", "image"}, file \in {"a", "b"},
          folder \in UploadFolders, uploadPreset \in {"", "preset"},
          outcome \in SignatureOutcomes :
          LET r == cloudinarySignature(folder, kind, outcome # "unconfigured")
          IN  direct' = [DirectInit EXCEPT
                           !.pc = "signed", !.kind = kind, !.file = file,
                           !.folder = folder,
                           !.uploadPreset = uploadPreset,
                           !.uploadParams = IF outcome = "ok" /\ r.status = 200
                                            THEN r.sig ELSE NoSignature]
    /\ UNCHANGED notDirect

\* the client posts the form to the media store
DirectSend ==
    /\ direct.pc = "signed"
    /\ direct' = [direct EXCEPT
                    !.pc = "sent",
                    !.formData =
                        IF direct.kind = "video"
                        THEN uploadVideoToCloudinary(direct.file, direct.folder,
                                 direct.uploadPreset, direct.uploadParams)
                        ELSE uploadImageToCloudinary(direct.file, direct.folder,
                                 direct.uploadPreset, direct.uploadParams),
                    !.cloudName = IF direct.uploadParams # NoSignature
                                  THEN direct.uploadParams.cloud_name
                                  ELSE "cloud"]
    /\ UNCHANGED notDirect

DirectEnd ==
    /\ direct.pc = "sent"
    /\ direct' = DirectInit
    /\ UNCHANGED notDirect

NextDirect ==
    \/ DirectSign
    \/ DirectSend
    \/ DirectEnd

SpecDirect == Init /\ [][NextDirect]_vars

Unsigned == {"file", "api_key", "resource_type", "cloud_name", "signature"}

\* C23: on the signed direct-upload path, the parameters the client sends
\* to the media store, other than file, api_key, resource_type, cloud_name
\* and signature, are exactly the parameters the server signed (timestamp,
\* plus folder when non-empty), with equal values, for both
\* uploadVideoToCloudinary and uploadImageToCloudinary.
C23_SentIsSigned ==
    (direct.pc = "sent" /\ direct.uploadParams # NoSignature) =>
        {direct.formData[i] : i \in {j \in DOMAIN direct.formData :
                                        direct.formData[j][1] \notin Unsigned}}
        = {direct.uploadParams.signed[i] : i \in DOMAIN direct.uploadParams.signed}

----------------------------------------------------------------------------
(* The app's routes in registration order: which requests pass through     *)
(* ensureDBConnection                                                      *)

Layer(method, path, name, terminal) ==
    [method |-> method, path |-> path, name |-> name, terminal |-> terminal]

\* the stack with the connection middleware registered first
Stack_gateFirst ==
    <<Layer("use", <<"api">>, "ensureDBConnection", FALSE),
      Layer("GET", <<"api", "cloudinary-config">>, "cloudinaryConfig", TRUE),
      Layer("POST", <<"api", "cloudinary-signature">>, "cloudinarySignature",
            TRUE),
      Layer("use", <<"api", "users">>, "userRoutes", TRUE),
      Layer("use", <<"api", "projects">>, "projectRoutes", TRUE),
      Layer("use", <<"api", "skills">>, "skillRoutes", TRUE)>>

\* app.get / app.post / app.use in the order the server file makes them
Stack ==
    <<Layer("GET", <<"api", "cloudinary-config">>, "cloudinaryConfig", TRUE),
      Layer("POST", <<"api", "cloudinary-signature">>, "cloudinarySignature",
            TRUE),
      Layer("use", <<"api">>, "ensureDBConnection", FALSE),
      Layer("use", <<"api", "users">>, "userRoutes", TRUE),
      Layer("use", <<"api", "projects">>, "projectRoutes", TRUE),
      Layer("use", <<"api", "skills">>, "skillRoutes", TRUE)>>

\* app.use matches a path prefix, app.get / app.post the method and path
matches(layer, req) ==
    IF layer.method = "use"
    THEN /\ Len(req.path) >= Len(layer.path)
         /\ SubSeq(req.path, 1, Len(layer.path)) = layer.path
    ELSE layer.method = req.method /\ layer.path = req.path

\* the layers a request runs through, each one calling next()
RECURSIVE dispatch(_, _)
dispatch(stack, req) ==
    IF stack = <<>> THEN <<"notFound">>
    ELSE IF matches(Head(stack), req)
    THEN IF Head(stack).terminal THEN <<Head(stack).name>>
         ELSE <<Head(stack).name>> \o dispatch(Tail(stack), req)
    ELSE dispatch(Tail(stack), req)

CloudinaryRequests ==
    {[method |-> "GET", path |-> <<"api", "cloudinary-config">>],
     [method |-> "POST", path |-> <<"api", "cloudinary-signature">>]}

RouterRequests ==
    {[method |-> "POST", path |-> <<"api", "users", "login">>],
     [method |-> "GET", path |-> <<"api", "projects">>],
     [method |-> "GET", path |-> <<"api", "skills">>]}

\* a request arrives
Route(r) ==
    /\ server.mode = "listening"
    /\ server.pc[r] = "idle"
    /\ \E req \in CloudinaryRequests \cup RouterRequests :
          /\ req # routed.req[r] \/ routed.direct[r]
          /\ routed' = [routed EXCEPT !.req[r] = req, !.direct[r] = FALSE]
    /\ UNCHANGED notRouted

\* its first layer is ensureDBConnection
Gate(r) ==
    /\ routed.req[r] # NoRequest
    /\ ~routed.direct[r]
    /\ Head(dispatch(Stack, routed.req[r])) = "ensureDBConnection"
    /\ EnsureDBConnection(r)

\* its first layer is a handler, which responds
Direct(r) ==
    /\ server.mode = "listening"
    /\ server.pc[r] = "idle"
    /\ routed.req[r] # NoRequest
    /\ ~routed.direct[r]
    /\ Head(dispatch(Stack, routed.req[r])) # "ensureDBConnection"
    /\ routed' = [routed EXCEPT !.direct[r] = TRUE]
    /\ UNCHANGED notRouted

NextRouted ==
    \/ StartVercel
    \/ StartLocal
    \/ StartLocalConnected
    \/ StartLocalFailed
    \/ \E r \in Requests : Route(r)
    \/ \E r \in Requests : Gate(r)
    \/ \E r \in Requests : Direct(r)
    \/ \E r \in Requests : Connected(r)
    \/ \E r \in Requests : ConnectFailed(r)
    \/ \E r \in Requests : Responded(r)

SpecRouted == Init /\ [][NextRouted]_vars

\* C24: every request under /api/users, /api/projects and /api/skills
\* reaches its route handler only after the database connection has been
\* established; a failed connection attempt answers 500, leaves dbConnected
\* false and runs no handler; GET /api/cloudinary-config and POST
\* /api/cloudinary-signature respond without any connection attempt.
C24_GatedRoutes ==
    /\ [](\A r \in Requests :
            /\ server.pc[r] \in {"connecting", "next", "failed"} =>
                  routed.req[r] \in RouterRequests
            /\ server.pc[r] = "next" =>
                  (server.dbConnected /\ server.readyState = 1)
            /\ server.pc[r] = "failed" => server.status[r] = 500
            /\ routed.direct[r] =>
                  (routed.req[r] \in CloudinaryRequests /\ server.pc[r] = "idle"))
    /\ [][\A r \in Requests :
            /\ (server.pc[r] # "failed" /\ server.pc'[r] = "failed") =>
                  ~server.dbConnected'
            /\ (~routed.direct[r] /\ routed.direct'[r]) =>
                  server' = server]_vars

\* the signature endpoint has answered, one router request was refused
\* with 500 and another is at its handler
C24_Witness ==
    \E r1, r2, r3 \in Requests :
        /\ routed.direct[r1]
        /\ routed.req[r1].path = <<"api", "cloudinary-signature">>
        /\ server.pc[r2] = "next"
        /\ routed.req[r2].path = <<"api", "projects">>
        /\ server.pc[r3] = "failed"
        /\ server.status[r3] = 500

----------------------------------------------------------------------------
(* throttle (frontend utils/throttle.js) under a clock in milliseconds and *)
(* the browser's timers                                                    *)

\* milliseconds of clock time explored after the page is loaded
Horizon == 6

\* most calls of one throttled or debounced function
MaxCalls == 4

\* the arguments and the `this` of a call
CallValues == {[args |-> "a", this |-> "w"], [args |-> "b", this |-> "e"]}

\* func.apply(this, args) at the time now
Invoke(log, now, args, this) ==
    Append(log, [at |-> now, args |-> args, this |-> this])

\* the timers of the table that are due
Due(t) == {x \in t.timers : x.due <= t.now}

\* later(): the callback of throttle's timeout
later(t) ==
    [t EXCEPT !.lastCall = t.now,
              !.timeoutId = 0,
              !.log = Invoke(t.log, t.now, t.lastArgs, t.lastThis)]

\* throttled(...args) invoking func on every call
throttled_everyCall(t, args, this) ==
    LET now == t.now
        remaining == t.limit - (now - t.lastCall)
        s == [t EXCEPT !.lastArgs = args, !.lastThis = this]
    IN  [s EXCEPT !.timers = IF s.timeoutId # 0
                             THEN {x \in @ : x.id # s.timeoutId} ELSE @,
                  !.timeoutId = 0,
                  !.lastCall = now,
                  !.log = Invoke(s.log, now, s.lastArgs, s.lastThis)]

\* throttled(...args) storing the arguments only when it invokes or sets
\* the timer
throttled_firstArgs(t, args, this) ==
    LET now == t.now
        remaining == t.limit - (now - t.lastCall)
        s == [t EXCEPT !.lastArgs = args, !.lastThis = this]
    IN  IF remaining <= 0 \/ remaining > t.limit
        THEN [s EXCEPT !.timers = IF s.timeoutId # 0
                                  THEN {x \in @ : x.id # s.timeoutId} ELSE @,
                       !.timeoutId = 0,
                       !.lastCall = now,
                       !.log = Invoke(s.log, now, s.lastArgs, s.lastThis)]
        ELSE IF t.timeoutId = 0
        THEN [s EXCEPT !.timeoutId = s.nextTimer,
                       !.timers = @ \cup {[id |-> s.nextTimer,
                                           due |-> now + remaining]},
                       !.nextTimer = @ + 1]
        ELSE t

\* throttled(...args)
throttled(t, args, this) ==
    LET now == t.now
        remaining == t.limit - (now - t.lastCall)
        s == [t EXCEPT !.lastArgs = args, !.lastThis = this]
    IN  IF remaining <= 0 \/ remaining > t.limit
        THEN [s EXCEPT !.timers = IF s.timeoutId # 0
                                  THEN {x \in @ : x.id # s.timeoutId} ELSE @,
                       !.timeoutId = 0,
                       !.lastCall = now,
                       !.log = Invoke(s.log, now, s.lastArgs, s.lastThis)]
        ELSE IF s.timeoutId = 0
        THEN [s EXCEPT !.timeoutId = s.nextTimer,
                       !.timers = @ \cup {[id |-> s.nextTimer,
                                           due |-> now + remaining]},
                       !.nextTimer = @ + 1]
        ELSE s

\* throttle(func, limit)
Throttle ==
    /\ thr.limit = 0
    /\ \E limit \in 1..MaxLimit :
          thr' = [ThrottledInit EXCEPT !.limit = limit]
    /\ UNCHANGED notThr

\* a call of the throttled function; a timer can still come due after it
ThrottledCall ==
    /\ thr.limit > 0
    /\ Len(thr.calls) < MaxCalls
    /\ thr.now + thr.limit <= Epoch + Horizon
    /\ \E v \in CallValues :
          thr' =
             [throttled(thr, v.args, v.this) EXCEPT
                !.calls = Append(@, [at |-> thr.now, args |-> v.args,
                                     this |-> v.this]),
                !.punctual = @ /\ Due(thr) = {}]
    /\ UNCHANGED notThr

\* a due timeout fires
ThrottleTimeout ==
    /\ \E x \in Due(thr) :
          thr' = later([thr EXCEPT !.timers = @ \ {x}])
    /\ UNCHANGED notThr

\* a millisecond passes; a timeout that is due and has not fired is late
ThrottleTick ==
    /\ thr.limit > 0
    /\ thr.now < Epoch + Horizon
    /\ thr' = [thr EXCEPT !.now = @ + 1,
                                      !.punctual = @ /\ Due(thr) = {}]
    /\ UNCHANGED notThr

NextThrottle ==
    \/ Throttle
    \/ ThrottledCall
    \/ ThrottleTimeout
    \/ ThrottleTick

SpecThrottle == Init /\ [][NextThrottle]_vars

\* timers fire; time passes
FairThrottle ==
    /\ SpecThrottle
    /\ WF_vars(ThrottleTimeout)
    /\ WF_vars(ThrottleTick)

LastOf(seq) == seq[Len(seq)]

\* C25: throttle(func, limit): the first call of the throttled function
\* invokes func immediately, at most one timer is pending at any time, and
\* (with a monotonic clock and timers firing when due) any two successive
\* invocations of func are at least limit milliseconds apart, for every
\* sequence of calls.
C25_ThrottleSpacing ==
    /\ thr.calls # <<>> =>
          (thr.log # <<>> /\ thr.log[1] = thr.calls[1])
    /\ Cardinality(thr.timers) <= 1
    /\ thr.punctual =>
          \A i \in 1..(Len(thr.log) - 1) :
              thr.log[i + 1].at - thr.log[i].at >= thr.limit

\* a call inside the limit set the timer, and the timer's invocation came
\* limit milliseconds after the first one
C25_Witness ==
    /\ thr.punctual
    /\ thr.limit = 2
    /\ Len(thr.log) = 2
    /\ thr.log[2].at = thr.log[1].at + 2
    /\ Len(thr.calls) = 2
    /\ thr.calls[2].at = thr.calls[1].at + 1

\* C26: throttle(func, limit): no call is lost at the end of a burst; after
\* any sequence of calls to the throttled function, func is eventually
\* invoked with the arguments and `this` of the last call, either
\* immediately by that call or by the pending timer.
C26_LastCallInvoked ==
    <>[](thr.calls # <<>> =>
            /\ thr.log # <<>>
            /\ LastOf(thr.log).args = LastOf(thr.calls).args
            /\ LastOf(thr.log).this = LastOf(thr.calls).this)

\* three calls in a burst: the first invoked at once, the timer invoked
\* func with the third call's arguments
C26_Witness ==
    /\ Len(thr.calls) = 3
    /\ thr.calls[2].args # thr.calls[3].args
    /\ thr.calls[3].at < thr.calls[1].at + thr.limit
    /\ Len(thr.log) = 2
    /\ thr.log[2].args = thr.calls[3].args
    /\ thr.log[2].this = thr.calls[3].this
    /\ thr.timers = {}

----------------------------------------------------------------------------
(* debounce (frontend utils/throttle.js) under the same clock and timers   *)

\* later() of one call of debounced: x is the timer, which carries the
\* call's context and args
debounceLater(d, x) ==
    [d EXCEPT !.timeout = 0,
              !.log = IF ~d.immediate THEN Invoke(@, d.now, x.args, x.this)
                      ELSE @]

\* debounced(...args) without the clearTimeout
debounced_keepsTimer(d, args, this) ==
    LET callNow == d.immediate /\ d.timeout = 0
    IN  [d EXCEPT !.timers = @ \cup {[id |-> d.nextTimer, due |-> d.now + d.wait,
                                      args |-> args, this |-> this]},
                  !.timeout = d.nextTimer,
                  !.nextTimer = @ + 1,
                  !.log = IF callNow THEN Invoke(@, d.now, args, this) ELSE @]

\* debounced(...args)
debounced(d, args, this) ==
    LET callNow == d.immediate /\ d.timeout = 0
    IN  [d EXCEPT !.timers = {x \in @ : x.id # d.timeout}
                             \cup {[id |-> d.nextTimer, due |-> d.now + d.wait,
                                    args |-> args, this |-> this]},
                  !.timeout = d.nextTimer,
                  !.nextTimer = @ + 1,
                  !.log = IF callNow THEN Invoke(@, d.now, args, this) ELSE @]

\* debounce(func, wait, immediate)
Debounce ==
    /\ deb.wait = 0
    /\ \E wait \in 1..MaxLimit, immediate \in BOOLEAN :
          deb' = [DebounceInit EXCEPT !.wait = wait, !.immediate = immediate]
    /\ UNCHANGED notDeb

\* a call of the debounced function; its timer can still come due
DebouncedCall ==
    /\ deb.wait > 0
    /\ Len(deb.calls) < MaxCalls
    /\ deb.now + deb.wait <= Epoch + Horizon
    /\ \E v \in CallValues :
          deb' = [debounced(deb, v.args, v.this) EXCEPT
                    !.calls = Append(@, [at |-> deb.now, args |-> v.args,
                                         this |-> v.this]),
                    !.punctual = @ /\ Due(deb) = {}]
    /\ UNCHANGED notDeb

\* a due timeout fires
DebounceTimeout ==
    /\ \E x \in Due(deb) :
          deb' = debounceLater([deb EXCEPT !.timers = @ \ {x}], x)
    /\ UNCHANGED notDeb

\* a millisecond passes; a timeout that is due and has not fired is late
DebounceTick ==
    /\ deb.wait > 0
    /\ deb.now < Epoch + Horizon
    /\ deb' = [deb EXCEPT !.now = @ + 1, !.punctual = @ /\ Due(deb) = {}]
    /\ UNCHANGED notDeb

NextDebounce ==
    \/ Debounce
    \/ DebouncedCall
    \/ DebounceTimeout
    \/ DebounceTick

SpecDebounce == Init /\ [][NextDebounce]_vars

\* the calls that end a burst: the last call, and every call followed by
\* one at least wait milliseconds later
BurstEnds ==
    {i \in 1..Len(deb.calls) :
        \/ i = Len(deb.calls)
        \/ deb.calls[i + 1].at - deb.calls[i].at >= deb.wait}

\* the j-th burst end
BurstEnd(j) ==
    CHOOSE i \in BurstEnds : Cardinality({k \in BurstEnds : k <= i}) = j

\* func was invoked for the bursts over, once each, wait milliseconds after
\* the burst's last call and with that call's arguments, and for no call
\* else
OncePerBurst ==
    /\ Len(deb.log) <= Cardinality(BurstEnds)
    /\ \A i \in BurstEnds :
          deb.calls[i].at + deb.wait < deb.now =>
              Cardinality({k \in BurstEnds : k <= i}) <= Len(deb.log)
    /\ \A j \in 1..Len(deb.log) :
          deb.log[j] = [at |-> deb.calls[BurstEnd(j)].at + deb.wait,
                        args |-> deb.calls[BurstEnd(j)].args,
                        this |-> deb.calls[BurstEnd(j)].this]

\* C27 as stated: debounce(func, wait) with immediate = false: func is
\* never invoked while calls keep arriving less than wait milliseconds
\* apart, and after each burst it is invoked exactly once, wait
\* milliseconds after the last call of the burst, with that last call's
\* arguments.
C27_Original ==
    (deb.wait > 0 /\ ~deb.immediate) => OncePerBurst

\* C27: debounce(func, wait) with immediate = false and timers firing when
\* due: func is never invoked while calls keep arriving less than wait
\* milliseconds apart, and after each burst it is invoked exactly once,
\* wait milliseconds after the last call of the burst, with that last
\* call's arguments.
C27_OncePerBurst ==
    (deb.wait > 0 /\ ~deb.immediate /\ deb.punctual) => OncePerBurst

\* two bursts, of two calls and of one: func was invoked twice, each time
\* wait milliseconds after the burst's last call
C27_Witness ==
    /\ deb.punctual
    /\ ~deb.immediate
    /\ deb.wait = 2
    /\ Len(deb.calls) = 3
    /\ deb.calls[2].at = deb.calls[1].at + 1
    /\ deb.calls[3].at >= deb.calls[2].at + 2
    /\ Len(deb.log) = 2
    /\ deb.log[1].at = deb.calls[2].at + 2
    /\ deb.log[1].args = deb.calls[2].args

----------------------------------------------------------------------------
(* The dashboard's project form (ProjectsView): startEdit, the media        *)
(* controls and handleSubmit, which sends the form as JSON to the API       *)

\* everything but the storage and the dashboard
notDashStore ==
    <<issued, deleted, last, fields, session, upload, server, race, flow,
      direct, routed, thr, deb, prov>>

\* x || null
OrNull(x) == IF Truthy(x) THEN x ELSE "null"

\* x || ''
OrEmpty(x) == IF Truthy(x) /\ x # "null" THEN x ELSE ""

\* startEdit(project): the form takes the record's text fields and lists;
\* of the media it keeps the two URLs, outside formData
startEdit(d, project) ==
    [d EXCEPT
       !.isEditing = project._id,
       !.isAdding = FALSE,
       !.formData =
           [EmptyForm EXCEPT
              !.title = OrEmpty(project.title),
              !.description = OrEmpty(project.description),
              !.features = Arr(project.features),
              !.tools = Arr(project.tools)],
       !.videoFile = FALSE,
       !.thumbnailFile = FALSE,
       !.existingVideoUrl = OrNull(project.cloudinaryVideoUrl),
       !.existingThumbnailUrl = OrNull(project.cloudinaryThumbnailUrl),
       !.touched = {}]

cancelEdit(d) ==
    [d EXCEPT
       !.isEditing = 0,
       !.isAdding = FALSE,
       !.formData = EmptyForm,
       !.videoFile = FALSE,
       !.thumbnailFile = FALSE,
       !.existingVideoUrl = "null",
       !.existingThumbnailUrl = "null",
       !.touched = {}]

\* the result of a direct upload: { url, public_id }
Uploaded(up) == [url |-> UploadUrl, public_id |-> up]

\* the object handleSubmit sends; video and thumbnail are the results of the
\* direct uploads (read only when a file was chosen)
submitData(d, video, thumbnail) ==
    LET cloudinaryVideoUrl ==
            IF d.videoFile THEN video.url ELSE d.existingVideoUrl
        cloudinaryVideoPublicId ==
            IF d.videoFile THEN video.public_id
            ELSE d.formData.cloudinaryVideoPublicId
        cloudinaryThumbnailUrl ==
            IF d.thumbnailFile THEN thumbnail.url ELSE d.existingThumbnailUrl
        cloudinaryThumbnailPublicId ==
            IF d.thumbnailFile THEN thumbnail.public_id
            ELSE d.formData.cloudinaryThumbnailPublicId
        data == [d.formData EXCEPT
                   !.cloudinaryVideoUrl = OrEmpty(cloudinaryVideoUrl),
                   !.cloudinaryVideoPublicId = OrEmpty(cloudinaryVideoPublicId),
                   !.cloudinaryThumbnailUrl = OrEmpty(cloudinaryThumbnailUrl),
                   !.cloudinaryThumbnailPublicId =
                       OrEmpty(cloudinaryThumbnailPublicId)]
        v == IF d.isEditing # 0 /\ ~d.videoFile /\ d.existingVideoUrl = "null"
             THEN [data EXCEPT !.removeVideo = "true",
                               !.cloudinaryVideoUrl = "",
                               !.cloudinaryVideoPublicId = ""]
             ELSE data
    IN  IF d.isEditing # 0 /\ ~d.thumbnailFile
           /\ d.existingThumbnailUrl = "null"
        THEN [v EXCEPT !.removeThumbnail = "true",
                       !.cloudinaryThumbnailUrl = "",
                       !.cloudinaryThumbnailPublicId = ""]
        ELSE v

\* the "Add Project" button
DashAdd ==
    /\ dash.submit = NoSubmit
    /\ dash.isEditing = 0 /\ ~dash.isAdding
    /\ dash' = [dash EXCEPT !.isAdding = TRUE, !.isEditing = 0]
    /\ UNCHANGED <<db, nextId>>
    /\ UNCHANGED notDashStore

\* the edit button of a listed project
StartEdit ==
    /\ dash.submit = NoSubmit
    /\ \E id \in DOMAIN dash.projects :
          dash' = startEdit(dash, dash.projects[id])
    /\ UNCHANGED <<db, nextId>>
    /\ UNCHANGED notDashStore

CancelEdit ==
    /\ dash.submit = NoSubmit
    /\ dash.isEditing # 0 \/ dash.isAdding
    /\ dash' = cancelEdit(dash)
    /\ UNCHANGED <<db, nextId>>
    /\ UNCHANGED notDashStore

\* what the admin may type into the title and the description
FormValues == [title |-> {"", "t"}, description |-> {"", "d"}]

\* handleInputChange: one named text field takes the typed value
HandleInputChange ==
    /\ dash.submit = NoSubmit
    /\ dash.isEditing # 0 \/ dash.isAdding
    /\ \E name \in DOMAIN FormValues :
       \E value \in FormValues[name] \ {dash.formData[name]} :
          dash' = [dash EXCEPT !.formData[name] = value]
    /\ UNCHANGED <<db, nextId>>
    /\ UNCHANGED notDashStore

\* handleVideoChange: a file of a wrong type or size is refused
HandleVideoChange ==
    /\ dash.submit = NoSubmit
    /\ dash.isEditing # 0 \/ dash.isAdding
    /\ \E accepted \in BOOLEAN :
          dash' = IF accepted
                  THEN [dash EXCEPT !.videoFile = TRUE,
                                    !.existingVideoUrl = "null",
                                    !.touched = @ \cup {"video"}]
                  ELSE dash
    /\ UNCHANGED <<db, nextId>>
    /\ UNCHANGED notDashStore

\* removeVideo
RemoveVideo ==
    /\ dash.submit = NoSubmit
    /\ dash.isEditing # 0 \/ dash.isAdding
    /\ dash' = [dash EXCEPT
                  !.videoFile = FALSE,
                  !.existingVideoUrl = "null",
                  !.formData =
                      IF dash.isEditing # 0
                      THEN [@ EXCEPT !.cloudinaryVideoUrl = "",
                                     !.removeVideo = "true"]
                      ELSE @,
                  !.touched = @ \cup {"video"}]
    /\ UNCHANGED <<db, nextId>>
    /\ UNCHANGED notDashStore

\* handleThumbnailChange
HandleThumbnailChange ==
    /\ dash.submit = NoSubmit
    /\ dash.isEditing # 0 \/ dash.isAdding
    /\ \E accepted \in BOOLEAN :
          dash' = IF accepted
                  THEN [dash EXCEPT !.thumbnailFile = TRUE,
                                    !.existingThumbnailUrl = "null",
                                    !.touched = @ \cup {"thumbnail"}]
                  ELSE dash
    /\ UNCHANGED <<db, nextId>>
    /\ UNCHANGED notDashStore

\* removeThumbnail
RemoveThumbnail ==
    /\ dash.submit = NoSubmit
    /\ dash.isEditing # 0 \/ dash.isAdding
    /\ dash' = [dash EXCEPT
                  !.thumbnailFile = FALSE,
                  !.existingThumbnailUrl = "null",
                  !.formData =
                      IF dash.isEditing # 0
                      THEN [@ EXCEPT !.cloudinaryThumbnailUrl = "",
                                     !.removeThumbnail = "true"]
                      ELSE @,
                  !.touched = @ \cup {"thumbnail"}]
    /\ UNCHANGED <<db, nextId>>
    /\ UNCHANGED notDashStore

\* what the two direct uploads of one submit come to
SubmitUploads(d, rec) ==
    {u \in [video : IF d.videoFile THEN {"fail"} \cup FreshPids(rec)
                    ELSE {"none"},
            thumbnail : IF d.thumbnailFile THEN {"fail"} \cup FreshPids(rec)
                        ELSE {"none"}] :
        u.video \in Pids => u.thumbnail # u.video}

\* handleSubmit: the direct uploads, then the PUT (editing) or the POST
\* (adding) with the session cookie; on success the list is fetched again
\* and the form closed, on any failure the form stays as it is.  Either way
\* a dialog reports the outcome of the request
HandleSubmit ==
    /\ dash.submit = NoSubmit
    /\ dash.isEditing # 0 \/ dash.isAdding
    /\ dash.isEditing = 0 => nextId \in AssignableIds
    /\ \E token \in {"valid", "expired"} :
       \E up \in SubmitUploads(dash, findById(db, dash.isEditing)) :
       \E env \in Envs(findById(db, dash.isEditing), NoFiles) :
          IF "fail" \in {up.video, up.thumbnail}
          THEN UNCHANGED <<db, nextId, dash>>
          ELSE LET editing == dash.isEditing # 0
                   id == IF editing THEN dash.isEditing ELSE nextId
                   op == IF editing THEN "updateProject" ELSE "addProject"
                   body == submitData(dash, Uploaded(up.video),
                                      Uploaded(up.thumbnail))
                   res == IF ~admitted(op, token)
                          THEN Result(401, "Not authorized", db, <<>>,
                                      NullProject)
                          ELSE IF editing
                          THEN updateProject(db, id, body, NoFiles, env)
                          ELSE addProject(db, id, "application/json", body,
                                          NoFiles, env)
                   sent == [method |-> IF editing THEN "PUT" ELSE "POST",
                            body |-> body, status |-> res.status,
                            pre |-> findById(db, id),
                            post |-> findById(res.db, id),
                            touched |-> dash.touched]
               IN  /\ db' = res.db
                   /\ nextId' = IF res.status = 201 THEN nextId + 1 ELSE nextId
                   /\ dash' = IF res.status \in {200, 201}
                              THEN [cancelEdit(dash) EXCEPT
                                      !.projects = res.db, !.submit = sent]
                              ELSE [dash EXCEPT !.submit = sent]
    /\ UNCHANGED notDashStore

\* the dialog that reported the outcome is closed
CloseDialog ==
    /\ dash.submit # NoSubmit
    /\ dash' = [dash EXCEPT !.submit = NoSubmit]
    /\ UNCHANGED <<db, nextId>>
    /\ UNCHANGED notDashStore

NextDashboard ==
    \/ DashAdd
    \/ StartEdit
    \/ CancelEdit
    \/ HandleInputChange
    \/ HandleVideoChange
    \/ RemoveVideo
    \/ HandleThumbnailChange
    \/ RemoveThumbnail
    \/ HandleSubmit
    \/ CloseDialog

SpecDashboard == Init /\ [][NextDashboard]_vars

\* C28: when the admin opens an existing project in the edit form and
\* submits it without choosing a new file and without removing the media,
\* the record's video URL and public id and its thumbnail URL and public id
\* are the same after the PUT as before it.
C28_EditKeepsMedia ==
    (dash.submit.method = "PUT" /\ dash.submit.touched = {}) =>
        \A k \in Kinds :
            /\ UrlOf(dash.submit.post, k) = UrlOf(dash.submit.pre, k)
            /\ PidOf(dash.submit.post, k) = PidOf(dash.submit.pre, k)

----------------------------------------------------------------------------
(* ProjectsProvider: fetchProjects, called on mount and by refreshProjects, *)
(* each call an async function of its own over the same three states       *)

InFlight(f) == prov.fetch[f].pc \notin {"idle", "done"}

\* the synchronous head of fetchProjects up to the first await: call f
\* is under way and its request sent
fetchProjects(p, f) ==
    [p EXCEPT !.loading = TRUE,
              !.error = FALSE,
              !.started = Append(@, f),
              !.fetch[f] = [NoFetch EXCEPT !.pc = "sent"]]

\* the catch block and the finally block of call f
fetchFailed(p, f) ==
    [p EXCEPT !.error = TRUE,
              !.projects = EmptyList,
              !.loading = FALSE,
              !.fetch[f].pc = "done",
              !.fetch[f].result = EmptyList]

\* setProjects(data.projects) and the finally block of call f
fetchSucceeded(p, f) ==
    [p EXCEPT !.projects = p.fetch[f].data,
              !.loading = FALSE,
              !.fetch[f].pc = "done",
              !.fetch[f].result = p.fetch[f].data]

\* the provider's effect: fetchProjects on mount
Mount ==
    /\ ~prov.mounted
    /\ Len(prov.started) < MaxFetches
    /\ prov' = [fetchProjects(prov, Len(prov.started) + 1)
                  EXCEPT !.mounted = TRUE]
    /\ UNCHANGED notProv

\* refreshProjects(): ProjectsView's effect on mount, or after a submit
RefreshProjects ==
    /\ Len(prov.started) < MaxFetches
    /\ prov' = fetchProjects(prov, Len(prov.started) + 1)
    /\ UNCHANGED notProv

\* the server's list is written by some request
StoreWrite ==
    /\ prov.store <= MaxWrites
    /\ prov' = [prov EXCEPT !.store = @ + 1]
    /\ UNCHANGED notProv

\* the server answers the request of call f: getProjects reads the list as
\* it is now
Answer(f) ==
    /\ prov.fetch[f].pc = "sent"
    /\ \E status \in {200, 404, 500} :
          prov' = [prov EXCEPT
                     !.fetch[f].pc = "answered",
                     !.fetch[f].status = status,
                     !.fetch[f].data =
                         IF status = 200 THEN prov.store ELSE EmptyList]
    /\ UNCHANGED notProv

\* fetch() of call f rejects: the connection failed
Rejected(f) ==
    /\ prov.fetch[f].pc = "sent"
    /\ prov' = fetchFailed(prov, f)
    /\ UNCHANGED notProv

\* the response of call f arrives: a first 404 is tried again at the
\* alternative URL, another failure goes to the catch block, a 200 is parsed
Arrive(f) ==
    /\ prov.fetch[f].pc = "answered"
    /\ prov' =
         IF prov.fetch[f].status = 404 /\ ~prov.fetch[f].alternative
         THEN [prov EXCEPT !.fetch[f].pc = "sent",
                           !.fetch[f].alternative = TRUE]
         ELSE IF prov.fetch[f].status # 200
         THEN fetchFailed(prov, f)
         ELSE [prov EXCEPT !.fetch[f].pc = "json"]
    /\ UNCHANGED notProv

\* response.json() of call f settles; a body without success and projects
\* goes to the catch block
Parsed(f) ==
    /\ prov.fetch[f].pc = "json"
    /\ \E body \in {"projects", "other"} :
          prov' = IF body = "projects" THEN fetchSucceeded(prov, f)
                  ELSE fetchFailed(prov, f)
    /\ UNCHANGED notProv

NextProvider ==
    \/ Mount
    \/ RefreshProjects
    \/ StoreWrite
    \/ \E f \in 1..MaxFetches : Answer(f)
    \/ \E f \in 1..MaxFetches : Rejected(f)
    \/ \E f \in 1..MaxFetches : Arrive(f)
    \/ \E f \in 1..MaxFetches : Parsed(f)

SpecProvider == Init /\ [][NextProvider]_vars

\* the call that was started last
LastStarted == prov.started[Len(prov.started)]

\* C30: when two fetchProjects calls overlap, for every order in which
\* their responses arrive, after both have completed `projects` holds the
\* result of the call that was started last, and `loading` is false only
\* when no call is in flight.
C30_LastStartedWins ==
    /\ (Len(prov.started) >= 2 /\ \A f \in 1..MaxFetches : ~InFlight(f)) =>
           prov.projects = prov.fetch[LastStarted].result
    /\ ~prov.loading => \A f \in 1..MaxFetches : ~InFlight(f)

====
